---- MODULE Spec2Model ----
(***************************************************************************)
(* Passport-photo geometry: the sheet-layout function, the compliance      *)
(* validator and the auto-alignment solver of the face-detection hook, and *)
(* the photo editor that calls them and renders their result.              *)
(*                                                                         *)
(* A JavaScript number is modelled as an exact rational n/d (d > 0, lowest *)
(* terms) extended with the IEEE-754 specials the code can produce by      *)
(* dividing by zero: +Infinity (1/0), -Infinity (-1/0) and NaN (0/0).      *)
(* Binary rounding of finite values is not modelled.                       *)
(***************************************************************************)
EXTENDS Integers, Sequences, FiniteSets, TLC

----------------------------------------------------------------------------
(* JavaScript numbers *)

Abs(x) == IF x < 0 THEN -x ELSE x

Sgn(x) == IF x > 0 THEN 1 ELSE IF x < 0 THEN -1 ELSE 0

RECURSIVE Gcd(_, _)
Gcd(a, b) == IF b = 0 THEN a ELSE Gcd(b, a % b)

\* The number n/d in its canonical form; d = 0 gives +Infinity, -Infinity or NaN.
Num(n, d) ==
  IF d = 0 THEN [n |-> Sgn(n), d |-> 0]
  ELSE LET g == Gcd(Abs(n), Abs(d))
           s == IF d < 0 THEN -1 ELSE 1
       IN  [n |-> s * (n \div g), d |-> s * (d \div g)]

Int2Num(i) == Num(i, 1)

NaN == Num(0, 0)

IsNaN(a) == a.d = 0 /\ a.n = 0

Neg(a) == [n |-> -a.n, d |-> a.d]

\* a + b
Plus(a, b) ==
  IF a.d = 0 /\ b.d = 0
  THEN (IF a.n = b.n THEN a ELSE NaN)
  ELSE Num(a.n * b.d + b.n * a.d, a.d * b.d)

\* a - b
Minus(a, b) == Plus(a, Neg(b))

\* a * b
Times(a, b) == Num(a.n * b.n, a.d * b.d)

\* a / b; a finite number over zero is +-Infinity, 0/0 is NaN
Over(a, b) ==
  LET s == IF b.n < 0 THEN -1 ELSE 1
  IN  Num(a.n * b.d * s, a.d * b.n * s)

\* a <= b; false when either is NaN
LE(a, b) ==
  /\ ~IsNaN(a)
  /\ ~IsNaN(b)
  /\ IF a.d = 0 /\ b.d = 0 THEN a.n <= b.n ELSE a.n * b.d <= b.n * a.d

\* a < b; false when either is NaN
LT(a, b) ==
  /\ ~IsNaN(a)
  /\ ~IsNaN(b)
  /\ IF a.d = 0 /\ b.d = 0 THEN a.n < b.n ELSE a.n * b.d < b.n * a.d

\* a >= b
GE(a, b) == LE(b, a)

\* Math.abs
MathAbs(a) == [n |-> Abs(a.n), d |-> a.d]

\* Math.floor
MathFloor(a) == IF a.d = 0 THEN a ELSE Num(a.n \div a.d, 1)

\* Math.round: the nearest integer, a half rounded up
MathRound(a) == IF a.d = 0 THEN a ELSE MathFloor(Plus(a, Num(1, 2)))

\* Math.max
MathMax(a, b) == IF IsNaN(a) \/ IsNaN(b) THEN NaN ELSE IF LE(a, b) THEN b ELSE a

----------------------------------------------------------------------------
(* The catalogue of standards and sheet sizes *)

passportStandards ==
  << [id |-> "us",        width |-> 51, height |-> 51, headHeightMin |-> 50, headHeightMax |-> 69, eyeLineFromBottom |-> 56],
     [id |-> "uk",        width |-> 35, height |-> 45, headHeightMin |-> 66, headHeightMax |-> 75, eyeLineFromBottom |-> 55],
     [id |-> "eu",        width |-> 35, height |-> 45, headHeightMin |-> 70, headHeightMax |-> 80, eyeLineFromBottom |-> 60],
     [id |-> "india",     width |-> 35, height |-> 45, headHeightMin |-> 50, headHeightMax |-> 70, eyeLineFromBottom |-> 55],
     [id |-> "china",     width |-> 33, height |-> 48, headHeightMin |-> 62, headHeightMax |-> 73, eyeLineFromBottom |-> 50],
     [id |-> "canada",    width |-> 50, height |-> 70, headHeightMin |-> 45, headHeightMax |-> 56, eyeLineFromBottom |-> 55],
     [id |-> "australia", width |-> 35, height |-> 45, headHeightMin |-> 60, headHeightMax |-> 75, eyeLineFromBottom |-> 55],
     [id |-> "japan",     width |-> 35, height |-> 45, headHeightMin |-> 60, headHeightMax |-> 70, eyeLineFromBottom |-> 55],
     [id |-> "germany",   width |-> 35, height |-> 45, headHeightMin |-> 70, headHeightMax |-> 80, eyeLineFromBottom |-> 60],
     [id |-> "france",    width |-> 35, height |-> 45, headHeightMin |-> 70, headHeightMax |-> 80, eyeLineFromBottom |-> 60] >>

Standards == {passportStandards[i] : i \in 1..Len(passportStandards)}

\* Sheet widths and heights are millimetres with one decimal (101.6 is 1016/10).
sheetSizes ==
  << [id |-> "4x6",    width |-> Num(1016, 10), height |-> Num(1524, 10), dpi |-> 300],
     [id |-> "5x7",    width |-> Num(127, 1),   height |-> Num(1778, 10), dpi |-> 300],
     [id |-> "a4",     width |-> Num(210, 1),   height |-> Num(297, 1),   dpi |-> 300],
     [id |-> "letter", width |-> Num(2159, 10), height |-> Num(2794, 10), dpi |-> 300],
     [id |-> "a5",     width |-> Num(148, 1),   height |-> Num(210, 1),   dpi |-> 300] >>

Sheets == {sheetSizes[i] : i \in 1..Len(sheetSizes)}

SheetById(id) == CHOOSE s \in Sheets : s.id = id

----------------------------------------------------------------------------
(* calculatePhotosPerSheet *)

\* The largest margin and gap (mm) a call is made with.
MaxMargin == 110

MaxGap == 3

\* A mis-computation that forgets the trailing gap: floor(usable / (photo + gap)).
calculatePhotosPerSheetNoGapTrick(photoWidth, photoHeight, sheet, marginMm, gapMm) ==
  LET usableWidth  == Minus(sheet.width, Int2Num(2 * marginMm))
      usableHeight == Minus(sheet.height, Int2Num(2 * marginMm))
      columns == MathFloor(Over(usableWidth, Int2Num(photoWidth + gapMm)))
      rows    == MathFloor(Over(usableHeight, Int2Num(photoHeight + gapMm)))
  IN  [columns |-> columns, rows |-> rows, total |-> Times(columns, rows)]

calculatePhotosPerSheet(photoWidth, photoHeight, sheet, marginMm, gapMm) ==
  LET usableWidth  == Minus(sheet.width, Int2Num(2 * marginMm))
      usableHeight == Minus(sheet.height, Int2Num(2 * marginMm))
      columns == MathFloor(Over(Plus(usableWidth, Int2Num(gapMm)), Int2Num(photoWidth + gapMm)))
      rows    == MathFloor(Over(Plus(usableHeight, Int2Num(gapMm)), Int2Num(photoHeight + gapMm)))
  IN  [columns |-> columns, rows |-> rows, total |-> Times(columns, rows)]

----------------------------------------------------------------------------
(* mmToPixels and pixelsToMm *)

\* A conversion that takes the inch for 25 mm.
mmToPixelsShortInch(mm, dpi) == MathRound(Times(Over(mm, Int2Num(25)), dpi))

mmToPixels(mm, dpi) == MathRound(Times(Over(mm, Num(254, 10)), dpi))

pixelsToMm(pixels, dpi) == Over(Times(pixels, Num(254, 10)), dpi)

----------------------------------------------------------------------------
(* useFaceDetection: the pure part of detectFace, validateFace, calculateAutoPosition *)

Null == [null |-> TRUE]

\* error: string | null
NoError == "null"

MsgTooSmall == "Face is too small. Zoom in or move closer."
MsgTooLarge == "Face is too large. Zoom out or move back."
MsgTooLow == "Eyes are too low. Move the photo up."
MsgTooHigh == "Eyes are too high. Move the photo down."
MsgNotCentered == "Face is not centered. Adjust horizontally."
MsgMeets == "Photo meets passport requirements!"
ErrNoFace == "No face detected. Please ensure your face is clearly visible."
ErrFailed == "Failed to detect face. Please try again."

\* Scores are percentages: a score of 0.7 is 70.
PersonScore == 70

AnyScore == 50

Box(xmin, ymin, xmax, ymax) ==
  [xmin |-> Int2Num(xmin), ymin |-> Int2Num(ymin), xmax |-> Int2Num(xmax), ymax |-> Int2Num(ymax)]

RECURSIVE FilterPersons(_)
FilterPersons(results) ==
  IF results = <<>> THEN <<>>
  ELSE LET r == Head(results)
       IN  (IF r.label = "person" /\ r.score > PersonScore THEN <<r>> ELSE <<>>)
             \o FilterPersons(Tail(results))

RECURSIVE FindAny(_)
FindAny(results) ==
  IF results = <<>> THEN Null
  ELSE IF Head(results).score > AnyScore THEN Head(results) ELSE FindAny(Tail(results))

\* personDetections.reduce((a, b) => a.score > b.score ? a : b)
RECURSIVE ReduceBest(_, _)
ReduceBest(a, rest) ==
  IF rest = <<>> THEN a
  ELSE ReduceBest(IF a.score > Head(rest).score THEN a ELSE Head(rest), Tail(rest))

\* A face region whose bottom edge is taken from the person's bottom edge alone,
\* not from the person's height.
FaceBoxOfPersonFromEdge(personBox) ==
  [xmin |-> Plus(personBox.xmin, Times(Minus(personBox.xmax, personBox.xmin), Num(2, 10))),
   xmax |-> Minus(personBox.xmax, Times(Minus(personBox.xmax, personBox.xmin), Num(2, 10))),
   ymin |-> personBox.ymin,
   ymax |-> Plus(personBox.ymin, Times(personBox.ymax, Num(4, 10)))]

\* The face region estimated from a person box: 20% trimmed from each side, top 40% kept.
FaceBoxOfPerson(personBox) ==
  [xmin |-> Plus(personBox.xmin, Times(Minus(personBox.xmax, personBox.xmin), Num(2, 10))),
   xmax |-> Minus(personBox.xmax, Times(Minus(personBox.xmax, personBox.xmin), Num(2, 10))),
   ymin |-> personBox.ymin,
   ymax |-> Plus(personBox.ymin, Times(Minus(personBox.ymax, personBox.ymin), Num(4, 10)))]

\* What detectFace makes of the detector's results: the face it returns (or Null)
\* and the error it sets (or Null).
detectFaceOutcome(results) ==
  LET personDetections == FilterPersons(results)
  IN  IF personDetections = <<>>
      THEN LET anyDetection == FindAny(results)
           IN  IF anyDetection # Null
               THEN [face |-> [box |-> anyDetection.box, score |-> anyDetection.score],
                     error |-> NoError]
               ELSE [face |-> Null, error |-> ErrNoFace]
      ELSE LET bestPerson == ReduceBest(Head(personDetections), Tail(personDetections))
           IN  [face |-> [box |-> FaceBoxOfPerson(bestPerson.box), score |-> bestPerson.score],
                error |-> NoError]

\* headHeightValid (lines 170-172)
headHeightValidExclusive(headHeightPercent, standard) ==
  /\ LT(Times(Int2Num(standard.headHeightMin), Num(8, 10)), headHeightPercent)
  /\ LT(headHeightPercent, Times(Int2Num(standard.headHeightMax), Num(12, 10)))

headHeightValidOf(headHeightPercent, standard) ==
  /\ GE(headHeightPercent, Times(Int2Num(standard.headHeightMin), Num(8, 10)))
  /\ LE(headHeightPercent, Times(Int2Num(standard.headHeightMax), Num(12, 10)))

\* eyeLineValid (lines 174-175)
eyeLineValidExclusive(eyeLinePercent, standard) ==
  LT(MathAbs(Minus(eyeLinePercent, Int2Num(standard.eyeLineFromBottom))), Int2Num(15))

eyeLineValidOf(eyeLinePercent, standard) ==
  LE(MathAbs(Minus(eyeLinePercent, Int2Num(standard.eyeLineFromBottom))), Int2Num(15))

\* centeredValid (line 177)
centeredValidExclusive(centerOffset) == LT(centerOffset, Int2Num(10))

centeredValidOf(centerOffset) == LE(centerOffset, Int2Num(10))

\* The messages list with the centering message pushed first.
messagesOfCenteringFirst(headHeightValid, eyeLineValid, centeredValid, headHeightPercent, eyeLinePercent, standard) ==
  LET m1 == IF ~headHeightValid
            THEN (IF LT(headHeightPercent, Times(Int2Num(standard.headHeightMin), Num(8, 10)))
                  THEN <<MsgTooSmall>> ELSE <<MsgTooLarge>>)
            ELSE <<>>
      m2 == IF ~eyeLineValid
            THEN (IF LT(eyeLinePercent, Int2Num(standard.eyeLineFromBottom))
                  THEN <<MsgTooLow>> ELSE <<MsgTooHigh>>)
            ELSE <<>>
      m3 == IF ~centeredValid THEN <<MsgNotCentered>> ELSE <<>>
      pushed == m3 \o m1 \o m2
  IN  IF Len(pushed) = 0 THEN <<MsgMeets>> ELSE pushed

\* messages (lines 179-203)
messagesOf(headHeightValid, eyeLineValid, centeredValid, headHeightPercent, eyeLinePercent, standard) ==
  LET m1 == IF ~headHeightValid
            THEN (IF LT(headHeightPercent, Times(Int2Num(standard.headHeightMin), Num(8, 10)))
                  THEN <<MsgTooSmall>> ELSE <<MsgTooLarge>>)
            ELSE <<>>
      m2 == IF ~eyeLineValid
            THEN (IF LT(eyeLinePercent, Int2Num(standard.eyeLineFromBottom))
                  THEN <<MsgTooLow>> ELSE <<MsgTooHigh>>)
            ELSE <<>>
      m3 == IF ~centeredValid THEN <<MsgNotCentered>> ELSE <<>>
      pushed == m1 \o m2 \o m3
  IN  IF Len(pushed) = 0 THEN <<MsgMeets>> ELSE pushed

\* The report validateFace builds (lines 153-214), before it is stored.
validateFaceResult(face, imageWidth, imageHeight, standard) ==
  LET box == face.box
      faceHeight == Minus(box.ymax, box.ymin)
      faceCenterX == Over(Plus(box.xmin, box.xmax), Int2Num(2))
      headHeightPercent == Times(Over(faceHeight, imageHeight), Int2Num(100))
      eyeY == Plus(box.ymin, Times(faceHeight, Num(35, 100)))
      eyeLinePercent == Times(Over(Minus(imageHeight, eyeY), imageHeight), Int2Num(100))
      imageCenterX == Over(imageWidth, Int2Num(2))
      centerOffset ==
        Times(Over(MathAbs(Minus(faceCenterX, imageCenterX)), imageWidth), Int2Num(100))
      headHeightValid == headHeightValidOf(headHeightPercent, standard)
      eyeLineValid == eyeLineValidOf(eyeLinePercent, standard)
      centeredValid == centeredValidOf(centerOffset)
  IN  [isValid |-> headHeightValid /\ eyeLineValid /\ centeredValid,
       headHeightValid |-> headHeightValid,
       eyeLineValid |-> eyeLineValid,
       centeredValid |-> centeredValid,
       headHeightPercent |-> headHeightPercent,
       eyeLinePercent |-> eyeLinePercent,
       centerOffset |-> centerOffset,
       messages |-> messagesOf(headHeightValid, eyeLineValid, centeredValid,
                               headHeightPercent, eyeLinePercent, standard)]

\* The solver's scale with the top of the band as the target instead of its midpoint.
autoScaleTopOfBand(faceHeight, canvasHeight, standard) ==
  Over(Times(canvasHeight, Over(Int2Num(standard.headHeightMax), Int2Num(100))), faceHeight)

\* scale (lines 234-239)
autoScale(faceHeight, canvasHeight, standard) ==
  LET targetHeadPercent ==
        Over(Over(Int2Num(standard.headHeightMin + standard.headHeightMax), Int2Num(2)),
             Int2Num(100))
      targetHeadHeight == Times(canvasHeight, targetHeadPercent)
  IN  Over(targetHeadHeight, faceHeight)

calculateAutoPosition(face, imageWidth, imageHeight, canvasWidth, canvasHeight, standard) ==
  LET box == face.box
      faceHeight == Minus(box.ymax, box.ymin)
      faceCenterX == Over(Plus(box.xmin, box.xmax), Int2Num(2))
      scale == autoScale(faceHeight, canvasHeight, standard)
      scaledImageWidth == Times(imageWidth, scale)
      scaledImageHeight == Times(imageHeight, scale)
      scaledFaceCenterX == Times(faceCenterX, scale)
      targetCenterX == Over(canvasWidth, Int2Num(2))
      offsetX == Minus(targetCenterX, scaledFaceCenterX)
      eyeY == Plus(box.ymin, Times(faceHeight, Num(35, 100)))
      scaledEyeY == Times(eyeY, scale)
      targetEyeY ==
        Times(canvasHeight,
              Minus(Int2Num(1), Over(Int2Num(standard.eyeLineFromBottom), Int2Num(100))))
      offsetY == Minus(targetEyeY, scaledEyeY)
      baseX == Over(Minus(canvasWidth, scaledImageWidth), Int2Num(2))
      baseY == Over(Minus(canvasHeight, scaledImageHeight), Int2Num(2))
  IN  [scale |-> scale,
       position |->
         [x |-> Plus(Minus(offsetX, baseX),
                     Over(Minus(canvasWidth, scaledImageWidth), Int2Num(2))),
          y |-> Plus(Minus(offsetY, baseY),
                     Over(Minus(canvasHeight, scaledImageHeight), Int2Num(2)))]]

----------------------------------------------------------------------------
(* PhotoEditor: canvas geometry and rendering *)

canvasSize == 400

aspectRatio(standard) == Over(Int2Num(standard.width), Int2Num(standard.height))

canvasWidth(standard) ==
  IF GE(aspectRatio(standard), Int2Num(1))
  THEN Int2Num(canvasSize)
  ELSE Times(Int2Num(canvasSize), aspectRatio(standard))

canvasHeight(standard) ==
  IF GE(aspectRatio(standard), Int2Num(1))
  THEN Over(Int2Num(canvasSize), aspectRatio(standard))
  ELSE Int2Num(canvasSize)

\* canvas.width and canvas.height: the width and height attributes of a canvas
\* element are integers, so the element truncates the value the JSX passes.
canvasElementWidth(standard) == MathFloor(canvasWidth(standard))

canvasElementHeight(standard) == MathFloor(canvasHeight(standard))

initialScale(image, standard) ==
  LET scaleX == Over(canvasWidth(standard), image.width)
      scaleY == Over(canvasHeight(standard), image.height)
  IN  Times(MathMax(scaleX, scaleY), Num(12, 10))

\* Where drawCanvas draws the image: ctx.drawImage(image, x, y, imgWidth, imgHeight).
drawCanvas(image, scale, position, standard) ==
  IF image = Null THEN Null
  ELSE LET imgWidth == Times(image.width, scale)
           imgHeight == Times(image.height, scale)
       IN  [x |-> Plus(Over(Minus(canvasElementWidth(standard), imgWidth), Int2Num(2)), position.x),
            y |-> Plus(Over(Minus(canvasElementHeight(standard), imgHeight), Int2Num(2)), position.y),
            imgWidth |-> imgWidth,
            imgHeight |-> imgHeight]

----------------------------------------------------------------------------
(* useBackgroundRemoval: what removeBackground makes of the segmentation result *)

\* An image is its size and its pixels row by row, each an opaque <<r, g, b>>; a mask
\* is its size and one value per pixel; a segment is a label, a score in percent
\* (0 for a missing score) and a mask or Null.
ErrInvalidResult == "Invalid segmentation result"
ErrNoSubject == "Could not identify subject in image. Please try a clearer photo."
ErrModel == "Background removal failed"

\* result.find(r => r.label === "person" || r.label === "face") (lines 113-115)
RECURSIVE findPersonMask(_)
findPersonMask(result) ==
  IF result = <<>> THEN Null
  ELSE IF Head(result).label \in {"person", "face"} THEN Head(result)
  ELSE findPersonMask(Tail(result))

\* result.reduce((largest, current) => ..., null) (lines 119-124)
RECURSIVE reduceLargest(_, _)
reduceLargest(largest, rest) ==
  IF rest = <<>> THEN largest
  ELSE LET current == Head(rest)
           largestScore == IF largest = Null THEN 0 ELSE largest.score
       IN  reduceLargest(IF current.mask = Null THEN largest
                         ELSE IF current.score > largestScore THEN current ELSE largest,
                         Tail(rest))

bgLabels == {"wall", "floor", "ceiling", "sky", "building", "tree", "grass"}

\* result.filter(r => r.mask && !bgLabels.includes(r.label)) (lines 138-140)
RECURSIVE foregroundSegments(_)
foregroundSegments(result) ==
  IF result = <<>> THEN <<>>
  ELSE (IF Head(result).mask # Null /\ Head(result).label \notin bgLabels
        THEN <<Head(result)>> ELSE <<>>) \o foregroundSegments(Tail(result))

IntMax(a, b) == IF a >= b THEN a ELSE b

\* The mask combined from the foreground segments (lines 149-164): the size of the
\* first and, per pixel, the largest value of any of them.
RECURSIVE combineMasks(_, _)
combineMasks(acc, segs) ==
  IF segs = <<>> THEN acc
  ELSE combineMasks([acc EXCEPT !.data = [i \in 1..Len(acc.data) |->
                                            IntMax(acc.data[i], Head(segs).mask.data[i])]],
                    Tail(segs))

\* The mask removeBackground composites with, or the error it throws (lines 107-165).
selectMask(result) ==
  IF Len(result) = 0 THEN [ok |-> FALSE, error |-> ErrInvalidResult]
  ELSE LET found == findPersonMask(result)
           personMask == IF found # Null THEN found ELSE reduceLargest(Null, result)
       IN  IF personMask # Null /\ personMask.mask # Null
           THEN [ok |-> TRUE, mask |-> personMask.mask]
           ELSE LET fg == foregroundSegments(result)
                IN  IF Len(fg) = 0 THEN [ok |-> FALSE, error |-> ErrNoSubject]
                    ELSE [ok |-> TRUE,
                          mask |-> combineMasks([width |-> fg[1].mask.width,
                                                 height |-> fg[1].mask.height,
                                                 data |-> [i \in 1..Len(fg[1].mask.data) |-> 0]],
                                                fg)]

\* The alpha byte of a mask value (line 194), stored in a Uint8ClampedArray.
maskAlpha(v) == IntMax(0, IF 255 * v > 255 THEN 255 ELSE 255 * v)

\* The mask drawn at the image's size (lines 203-222): unchanged when it has that
\* size already, and one value everywhere when the mask is a single pixel.
scaledMaskAlpha(mask, width, height) ==
  IF mask.width = width /\ mask.height = height
  THEN [i \in 1..(width * height) |-> maskAlpha(mask.data[i])]
  ELSE [i \in 1..(width * height) |-> maskAlpha(mask.data[1])]

\* A compositor that keeps the source where the mask is transparent.
compositePixelInverted(src, alpha, bg) ==
  [k \in 1..3 |-> (src[k] * (255 - alpha) + bg[k] * alpha) \div 255]

\* The image with the mask as its alpha channel drawn over the background fill
\* (lines 175-177, 248-255): source-over compositing of one pixel. How a browser
\* rounds a partly transparent pixel is its own choice; the masks drawn below hold
\* only 0 and 1, where the result is exact.
compositePixel(src, alpha, bg) ==
  [k \in 1..3 |-> (src[k] * alpha + bg[k] * (255 - alpha) + 127) \div 255]

\* How removeBackground ends once the model has answered (lines 105-259): the
\* output image, or the error thrown.
removeBackgroundOutcome(imageElement, backgroundColor, result) ==
  LET sel == selectMask(result)
  IN  IF ~sel.ok THEN sel
      ELSE LET w == imageElement.naturalWidth
               h == imageElement.naturalHeight
               alpha == scaledMaskAlpha(sel.mask, w, h)
           IN  [ok |-> TRUE,
                output |-> [width |-> w, height |-> h,
                            pixels |-> [i \in 1..(w * h) |->
                                          compositePixel(imageElement.pixels[i], alpha[i],
                                                         backgroundColor)]]]

----------------------------------------------------------------------------
(* SheetPreview: the layout drawn on the preview canvas and on the exported sheet *)

previewScale == Num(1, 2)

\* marginMm and gapMm of SheetPreview (lines 16-17)
sheetMarginMm == 5

sheetGapMm == 2

\* The layout the component computes when it renders (lines 19-25).
photosPerSheet(st, sh) == calculatePhotosPerSheet(st.width, st.height, sh, sheetMarginMm, sheetGapMm)

\* The values a loop "for (let i = 0; i < n; i++)" runs through.
loopRange(n) == IF n.d = 1 /\ n.n > 0 THEN 0..(n.n - 1) ELSE {}

\* drawSheet's scale (line 33)
drawSheetScale(exportMode) == IF exportMode THEN Int2Num(1) ELSE previewScale

\* The size drawSheet's caller gives the preview canvas (lines 102-106); the
\* element keeps the integer part.
previewCanvasSize(sh) ==
  [width  |-> MathFloor(Times(mmToPixels(sh.width, Int2Num(sh.dpi)), previewScale)),
   height |-> MathFloor(Times(mmToPixels(sh.height, Int2Num(sh.dpi)), previewScale))]

\* drawSheet that scales the millimetres before converting them to pixels.
drawSheetCellsScaledMm(st, sh, exportMode) ==
  LET dpi == Int2Num(sh.dpi)
      scale == drawSheetScale(exportMode)
      photoWidthPx == mmToPixels(Times(Int2Num(st.width), scale), dpi)
      photoHeightPx == mmToPixels(Times(Int2Num(st.height), scale), dpi)
      marginPx == mmToPixels(Times(Int2Num(sheetMarginMm), scale), dpi)
      gapPx == mmToPixels(Times(Int2Num(sheetGapMm), scale), dpi)
      layout == photosPerSheet(st, sh)
  IN  { [col |-> col, row |-> row,
         x |-> Plus(marginPx, Times(Int2Num(col), Plus(photoWidthPx, gapPx))),
         y |-> Plus(marginPx, Times(Int2Num(row), Plus(photoHeightPx, gapPx))),
         width |-> photoWidthPx, height |-> photoHeightPx] :
        col \in loopRange(layout.columns), row \in loopRange(layout.rows) }

\* The cells drawSheet draws when its image has loaded (lines 32-40, 57-68):
\* ctx.drawImage(img, x, y, photoWidthPx, photoHeightPx) for each row and col.
drawSheetCells(st, sh, exportMode) ==
  LET dpi == Int2Num(sh.dpi)
      scale == drawSheetScale(exportMode)
      photoWidthPx == Times(mmToPixels(Int2Num(st.width), dpi), scale)
      photoHeightPx == Times(mmToPixels(Int2Num(st.height), dpi), scale)
      marginPx == Times(mmToPixels(Int2Num(sheetMarginMm), dpi), scale)
      gapPx == Times(mmToPixels(Int2Num(sheetGapMm), dpi), scale)
      layout == photosPerSheet(st, sh)
  IN  { [col |-> col, row |-> row,
         x |-> Plus(marginPx, Times(Int2Num(col), Plus(photoWidthPx, gapPx))),
         y |-> Plus(marginPx, Times(Int2Num(row), Plus(photoHeightPx, gapPx))),
         width |-> photoWidthPx, height |-> photoHeightPx] :
        col \in loopRange(layout.columns), row \in loopRange(layout.rows) }

\* The cut guides drawSheet draws after the cells (lines 73-93): for each cell a
\* corner mark from (x, y - guideLength) over (x, y) to (x - guideLength, y).
drawSheetGuides(st, sh, exportMode) ==
  LET dpi == Int2Num(sh.dpi)
      scale == drawSheetScale(exportMode)
      photoWidthPx == Times(mmToPixels(Int2Num(st.width), dpi), scale)
      photoHeightPx == Times(mmToPixels(Int2Num(st.height), dpi), scale)
      marginPx == Times(mmToPixels(Int2Num(sheetMarginMm), dpi), scale)
      gapPx == Times(mmToPixels(Int2Num(sheetGapMm), dpi), scale)
      guideLength == Times(Int2Num(10), scale)
      layout == photosPerSheet(st, sh)
  IN  { [col |-> col, row |-> row,
         x |-> Plus(marginPx, Times(Int2Num(col), Plus(photoWidthPx, gapPx))),
         y |-> Plus(marginPx, Times(Int2Num(row), Plus(photoHeightPx, gapPx))),
         length |-> guideLength] :
        col \in {c \in loopRange(Plus(layout.columns, Int2Num(1))) : LT(Int2Num(c), layout.columns)},
        row \in {r \in loopRange(Plus(layout.rows, Int2Num(1))) : LT(Int2Num(r), layout.rows)} }

\* The sheet handleDownload builds on its temporary canvas (lines 116-147): the
\* canvas size and the cells; it draws nothing else.
handleDownloadSheet(st, sh) ==
  LET dpi == Int2Num(sh.dpi)
      photoWidthPx == mmToPixels(Int2Num(st.width), dpi)
      photoHeightPx == mmToPixels(Int2Num(st.height), dpi)
      marginPx == mmToPixels(Int2Num(sheetMarginMm), dpi)
      gapPx == mmToPixels(Int2Num(sheetGapMm), dpi)
      layout == photosPerSheet(st, sh)
  IN  [standard |-> st, sheet |-> sh,
       width |-> mmToPixels(sh.width, dpi),
       height |-> mmToPixels(sh.height, dpi),
       cells |-> { [col |-> col, row |-> row,
                    x |-> Plus(marginPx, Times(Int2Num(col), Plus(photoWidthPx, gapPx))),
                    y |-> Plus(marginPx, Times(Int2Num(row), Plus(photoHeightPx, gapPx))),
                    width |-> photoWidthPx, height |-> photoHeightPx] :
                   col \in loopRange(layout.columns), row \in loopRange(layout.rows) },
       guides |-> {}]

----------------------------------------------------------------------------
(* Inputs of the editor: the photo's pixel size and what the detector answers *)

\* Face heights FaceStep * k for k in -1..MaxFaceSteps (0 and -FaceStep are degenerate)
\* and top edges YMinStep * k for k in 0..MaxYMinSteps.
FaceStep == 40

MaxFaceSteps == 9

YMinStep == 50

MaxYMinSteps == 1

\* Pending re-validation timers at a time.
MaxTimers == 1

ImageSources ==
  { [width |-> Int2Num(400), height |-> Int2Num(400)],
    [width |-> Int2Num(600), height |-> Int2Num(800)] }

XSpans == { <<150, 250>>, <<190, 290>>, <<200, 320>> }

\* Boxes the detector may report: one horizontal span with every top edge and
\* height, and every horizontal span with one vertical span.
RawBoxes ==
  { Box(150, YMinStep * i, 250, YMinStep * i + FaceStep * k) :
      i \in 0..MaxYMinSteps, k \in -1..MaxFaceSteps }
    \cup { Box(x[1], 50, x[2], 250) : x \in XSpans }

PersonBoxes == { Box(100, 50, 300, 300), Box(0, 0, 400, 400) }

\* What the detector may answer: nothing, one detection below the person threshold
\* (the fallback passes its box on unchanged), one or two confident persons, or
\* only a detection too weak for the fallback.
DetectorResults ==
  {<<>>}
    \cup { <<[label |-> "person", score |-> 60, box |-> b]>> : b \in RawBoxes }
    \cup { <<[label |-> "person", score |-> 90, box |-> b]>> : b \in PersonBoxes }
    \cup { <<[label |-> "person", score |-> 80, box |-> Box(0, 0, 400, 400)],
             [label |-> "person", score |-> 95, box |-> Box(100, 50, 300, 300)]>>,
           <<[label |-> "cat", score |-> 40, box |-> Box(0, 0, 400, 400)]>> }

----------------------------------------------------------------------------
VARIABLES
  imageSrc,        \* PhotoEditor prop: the uploaded photo (its pixel size)
  detections,      \* what the detector answers for this photo
  standard,        \* PhotoEditor prop: the selected standard
  image,           \* PhotoEditor state: the loaded image, or Null
  scale,           \* PhotoEditor state
  position,        \* PhotoEditor state
  showFaceBox,     \* PhotoEditor state
  hook,            \* useFaceDetection state: isLoading, isModelLoading,
                   \* loadingProgress, detectedFace, validation, error
  detectorPromise, \* module-level: "null", "pending", "fulfilled" or "rejected"
  calls,           \* detectFace calls in flight, each with its caller's closure
  timers,          \* re-validation callbacks scheduled by handleAutoCenter
  drawn,           \* where drawCanvas last drew the image
  lastCall,        \* the last call of validateFace or calculateAutoPosition:
                   \* its arguments and what it returned
  sheetArgs,       \* the arguments calculatePhotosPerSheet is called with
  sheetRet,        \* what the call returned (NoResult before the call)
  mount,           \* which PhotoEditor instance is mounted (the wizard mounts a new
                   \* one each time it enters the edit step)
  pipelineCalls,   \* every invocation of pipeline() so far: its task and its caller
  unitsArgs,       \* the arguments mmToPixels and pixelsToMm are called with
  unitsRet,        \* what the calls returned (NoResult before the calls)
  selectedSheet,   \* SheetPreview prop: the selected sheet size
  canvas,          \* SheetPreview: the preview canvas and what is drawn on it
  draws,           \* drawSheet calls waiting for their image to load
  downloads,       \* handleDownload calls waiting for their image to load
  download,        \* the sheet last downloaded, or Null
  segmenter,       \* module-level: the segmentation model: 0 for null, else the number
                   \* of the pipeline() invocation that made it
  bgHook,          \* useBackgroundRemoval state: isLoading, isModelLoading,
                   \* loadingProgress, error
  bgCalls,         \* removeBackground calls in flight
  bgArgs,          \* the image and background color removeBackground is called with,
                   \* and what the segmentation model answers for that image
  bgRet,           \* how the last removeBackground call ended (NoResult before)
  step,            \* Index state: "upload", "edit" or "export"
  originalImage,   \* Index state: the uploaded photo, or Null
  croppedImage,    \* Index state: the picture of the editor's canvas, or Null
  readers          \* PhotoUploader: FileReaders that have not fired onloadend yet,
                   \* each with the result it will have

editorVars == <<imageSrc, detections, standard, image, scale, position, showFaceBox, drawn>>

processVars == <<detectorPromise, calls, timers>>

sheetVars == <<sheetArgs, sheetRet>>

unitsVars == <<unitsArgs, unitsRet>>

previewVars == <<selectedSheet, canvas, draws, downloads, download>>

backgroundVars == <<segmenter, bgHook, bgCalls, bgArgs, bgRet>>

wizardVars == <<step, originalImage, croppedImage, readers>>

\* What the editor's handlers never touch.
otherVars == <<sheetVars, unitsVars, previewVars, backgroundVars, wizardVars>>

vars == <<imageSrc, detections, standard, image, scale, position, showFaceBox, hook,
          detectorPromise, calls, timers, drawn, lastCall, sheetArgs, sheetRet,
          mount, pipelineCalls, unitsArgs, unitsRet, selectedSheet, canvas, draws, downloads,
          download, segmenter, bgHook, bgCalls, bgArgs, bgRet, step, originalImage,
          croppedImage, readers>>

NoResult == [op |-> "none"]

NoCall == [op |-> "none"]

hookInit ==
  [isLoading |-> FALSE, isModelLoading |-> FALSE, loadingProgress |-> 0,
   detectedFace |-> Null, validation |-> Null, error |-> NoError]

----------------------------------------------------------------------------
(* useFaceDetection: the hook's functions as state changes *)

\* A validateFace that also forgets the detected face.
validateFaceClearingFace(hk, face, imageWidth, imageHeight, st) ==
  [hk EXCEPT !.validation = validateFaceResult(face, imageWidth, imageHeight, st),
             !.detectedFace = Null]

\* validateFace: builds the report and stores it (setValidation).
validateFace(hk, face, imageWidth, imageHeight, st) ==
  [hk EXCEPT !.validation = validateFaceResult(face, imageWidth, imageHeight, st)]

validateFaceCall(caller, face, imageWidth, imageHeight, st) ==
  [op |-> "validateFace", caller |-> caller, face |-> face,
   imageWidth |-> imageWidth, imageHeight |-> imageHeight, standard |-> st,
   ret |-> validateFaceResult(face, imageWidth, imageHeight, st)]

calculateAutoPositionCall(face, img, st) ==
  [op |-> "calculateAutoPosition", caller |-> "handleAutoCenter", face |-> face,
   imageWidth |-> img.width, imageHeight |-> img.height,
   canvasWidth |-> canvasWidth(st), canvasHeight |-> canvasHeight(st), standard |-> st,
   ret |-> calculateAutoPosition(face, img.width, img.height,
                                 canvasWidth(st), canvasHeight(st), st)]

\* detectFace's catch and finally (lines 138-144)
detectFaceFailed(hk) == [hk EXCEPT !.error = ErrFailed, !.isLoading = FALSE]

\* detectFace after the detector answered (lines 96-137, 142-144)
detectFaceDone(hk, outcome) ==
  [hk EXCEPT !.detectedFace = IF outcome.face # Null THEN outcome.face ELSE @,
             !.error = IF outcome.error # NoError THEN outcome.error ELSE @,
             !.isLoading = FALSE]

RECURSIVE RemoveAt(_, _)
RemoveAt(seq, i) ==
  IF i = 1 THEN Tail(seq) ELSE <<Head(seq)>> \o RemoveAt(Tail(seq), i - 1)

ButtonsEnabled == ~hook.isLoading /\ ~hook.isModelLoading

Redraw == drawn' = drawCanvas(image', scale', position', standard')

----------------------------------------------------------------------------
(* PhotoEditor: handlers *)

\* img.onload of the effect that loads imageSrc (lines 47-58)
ImageOnload ==
  /\ image = Null
  /\ image' = imageSrc
  /\ scale' = initialScale(imageSrc, standard)
  /\ position' = [x |-> Int2Num(0), y |-> Int2Num(0)]
  /\ UNCHANGED <<imageSrc, detections, standard, showFaceBox, hook, processVars, lastCall,
                 mount, pipelineCalls, otherVars>>
  /\ Redraw

\* handleReset (lines 135-143)
HandleReset ==
  /\ image # Null
  /\ scale' = initialScale(image, standard)
  /\ position' = [x |-> Int2Num(0), y |-> Int2Num(0)]
  /\ showFaceBox' = FALSE
  /\ UNCHANGED <<imageSrc, detections, standard, image, hook, processVars, lastCall,
                 mount, pipelineCalls, otherVars>>
  /\ Redraw

\* The pipeline() invocations made for a task.
pipelineCallsFor(task) ==
  {i \in 1..Len(pipelineCalls) : pipelineCalls[i].task = task}

\* The PhotoEditor instance whose getDetector invoked pipeline() (0 if none did).
detectorLoader ==
  IF pipelineCallsFor("object-detection") = {} THEN 0
  ELSE pipelineCalls[CHOOSE i \in pipelineCallsFor("object-detection") : TRUE].mount

\* A detectFace whose getDetector memoizes the loaded model and not the promise: a
\* call that finds the loading still in flight invokes pipeline() again.
DetectFaceStartReloading(kind) ==
  /\ image # Null
  /\ ButtonsEnabled
  /\ kind = "autoCenter" =>
       /\ hook.detectedFace = Null
       /\ Len(timers) + Cardinality({i \in 1..Len(calls) : calls[i].kind = "autoCenter"})
            < MaxTimers
  /\ LET started == [hook EXCEPT !.isLoading = TRUE, !.error = NoError]
         call(at) == [kind |-> kind, at |-> at, imageSrc |-> imageSrc,
                      image |-> image, standard |-> standard, mount |-> mount]
     IN  CASE detectorPromise \in {"null", "pending"} ->
                /\ detectorPromise' = "pending"
                /\ pipelineCalls' = Append(pipelineCalls,
                                           [task |-> "object-detection", mount |-> mount])
                /\ hook' = [started EXCEPT !.isModelLoading = TRUE, !.loadingProgress = 0]
                /\ calls' = Append(calls, call("init"))
           [] detectorPromise = "fulfilled" ->
                /\ calls' = Append(calls, call("inference"))
                /\ hook' = started
                /\ UNCHANGED <<detectorPromise, pipelineCalls>>
           [] detectorPromise = "rejected" ->
                /\ hook' = detectFaceFailed(started)
                /\ UNCHANGED <<detectorPromise, pipelineCalls, calls>>
  /\ UNCHANGED <<editorVars, timers, lastCall, mount, otherVars>>

\* The start of detectFace (lines 89-93) with getDetector (lines 65-86), called by
\* handleAutoDetect (kind "autoDetect") or by handleAutoCenter when no face is
\* known yet (kind "autoCenter"); the caller's closure is kept with the call.
DetectFaceStart(kind) ==
  /\ image # Null
  /\ ButtonsEnabled
  /\ kind = "autoCenter" =>
       /\ hook.detectedFace = Null
       /\ Len(timers) + Cardinality({i \in 1..Len(calls) : calls[i].kind = "autoCenter"})
            < MaxTimers
  /\ LET started == [hook EXCEPT !.isLoading = TRUE, !.error = NoError]
         call(at) == [kind |-> kind, at |-> at, imageSrc |-> imageSrc,
                      image |-> image, standard |-> standard, mount |-> mount]
     IN  CASE detectorPromise = "null" ->
                /\ detectorPromise' = "pending"
                /\ pipelineCalls' = Append(pipelineCalls,
                                           [task |-> "object-detection", mount |-> mount])
                /\ hook' = [started EXCEPT !.isModelLoading = TRUE, !.loadingProgress = 0]
                /\ calls' = Append(calls, call("init"))
           [] detectorPromise = "pending" ->
                /\ calls' = Append(calls, call("init"))
                /\ hook' = started
                /\ UNCHANGED <<detectorPromise, pipelineCalls>>
           [] detectorPromise = "fulfilled" ->
                /\ calls' = Append(calls, call("inference"))
                /\ hook' = started
                /\ UNCHANGED <<detectorPromise, pipelineCalls>>
           [] detectorPromise = "rejected" ->
                /\ hook' = detectFaceFailed(started)
                /\ UNCHANGED <<detectorPromise, pipelineCalls, calls>>
  /\ UNCHANGED <<editorVars, timers, lastCall, mount, otherVars>>

HandleAutoDetect == DetectFaceStart("autoDetect")

\* Whether some detectFace call of the mounted editor is in flight.
HasLiveCall == \E i \in 1..Len(calls) : calls[i].mount = mount

\* getDetector's finally (lines 80-83) in the instance that started the loading;
\* a state update of an instance that is no longer mounted is dropped.
getDetectorFinally(hk) ==
  IF detectorLoader = mount
  THEN [hk EXCEPT !.isModelLoading = FALSE, !.loadingProgress = 100]
  ELSE hk

\* pipeline() resolves: getDetector's finally runs and every waiting detectFace
\* goes on to call the detector.
PipelineResolves ==
  /\ detectorPromise = "pending"
  /\ detectorPromise' = "fulfilled"
  /\ hook' = getDetectorFinally(hook)
  /\ calls' = [i \in 1..Len(calls) |-> [calls[i] EXCEPT !.at = "inference"]]
  /\ UNCHANGED <<editorVars, timers, lastCall, mount, pipelineCalls, otherVars>>

\* pipeline() rejects: getDetector's finally runs and every waiting detectFace
\* ends in its catch.
PipelineRejects ==
  /\ detectorPromise = "pending"
  /\ detectorPromise' = "rejected"
  /\ hook' = IF HasLiveCall THEN detectFaceFailed(getDetectorFinally(hook))
             ELSE getDetectorFinally(hook)
  /\ calls' = <<>>
  /\ UNCHANGED <<editorVars, timers, lastCall, mount, pipelineCalls, otherVars>>

\* handleAutoCenter from the face on (lines 164-186)
ApplyAutoCenter(face, img, st) ==
  LET c == calculateAutoPositionCall(face, img, st)
  IN  /\ scale' = c.ret.scale
      /\ position' = c.ret.position
      /\ showFaceBox' = TRUE
      /\ timers' = Append(timers, [face |-> face, image |-> img, standard |-> st,
                                   mount |-> mount])
      /\ lastCall' = c

\* The same lines run by an editor that has been unmounted since: the solver is
\* called and the timer is set, the state updates are dropped.
ApplyAutoCenterUnmounted(face, img, st, m) ==
  /\ timers' = Append(timers, [face |-> face, image |-> img, standard |-> st, mount |-> m])
  /\ lastCall' = calculateAutoPositionCall(face, img, st)
  /\ UNCHANGED <<scale, position, showFaceBox>>

\* The detector answers call i: detectFace finishes and its caller goes on
\* (handleAutoDetect lines 149-153, handleAutoCenter lines 164-186).
InferenceReturns ==
  \E i \in 1..Len(calls) :
    LET c == calls[i]
        outcome == detectFaceOutcome(detections)
        live == c.mount = mount
        done == IF live THEN detectFaceDone(hook, outcome) ELSE hook
    IN  /\ c.at = "inference"
        /\ calls' = RemoveAt(calls, i)
        /\ IF outcome.face = Null
           THEN /\ hook' = done
                /\ UNCHANGED <<scale, position, showFaceBox, timers, lastCall>>
           ELSE IF c.kind = "autoDetect"
           THEN /\ showFaceBox' = (live \/ showFaceBox)
                /\ hook' = IF live
                           THEN validateFace(done, outcome.face, c.image.width,
                                             c.image.height, c.standard)
                           ELSE hook
                /\ lastCall' = validateFaceCall("handleAutoDetect", outcome.face,
                                                c.image.width, c.image.height, c.standard)
                /\ UNCHANGED <<scale, position, timers>>
           ELSE /\ hook' = done
                /\ IF live THEN ApplyAutoCenter(outcome.face, c.image, c.standard)
                   ELSE ApplyAutoCenterUnmounted(outcome.face, c.image, c.standard, c.mount)
        /\ UNCHANGED <<imageSrc, detections, standard, image, detectorPromise, mount,
                       pipelineCalls, otherVars>>
        /\ Redraw

\* The detector throws on call i.
InferenceThrows ==
  \E i \in 1..Len(calls) :
    /\ calls[i].at = "inference"
    /\ calls' = RemoveAt(calls, i)
    /\ hook' = IF calls[i].mount = mount THEN detectFaceFailed(hook) ELSE hook
    /\ UNCHANGED <<editorVars, detectorPromise, timers, lastCall, mount, pipelineCalls,
                   otherVars>>

\* handleAutoCenter (lines 156-187): with a detected face it applies the solver at
\* once, without one it first awaits detectFace.
HandleAutoCenter ==
  \/ /\ image # Null
     /\ ButtonsEnabled
     /\ hook.detectedFace # Null
     /\ Len(timers) < MaxTimers
     /\ ApplyAutoCenter(hook.detectedFace, image, standard)
     /\ UNCHANGED <<imageSrc, detections, standard, image, hook, detectorPromise, calls,
                    mount, pipelineCalls, otherVars>>
     /\ Redraw
  \/ DetectFaceStart("autoCenter")

\* The setTimeout callback of handleAutoCenter (lines 179-183)
Revalidate ==
  /\ timers # <<>>
  /\ LET t == Head(timers)
     IN  /\ hook' = IF t.mount = mount
                    THEN validateFace(hook, t.face, t.image.width, t.image.height,
                                      t.standard)
                    ELSE hook
         /\ lastCall' = validateFaceCall("revalidate", t.face, t.image.width,
                                         t.image.height, t.standard)
  /\ timers' = Tail(timers)
  /\ UNCHANGED <<editorVars, detectorPromise, calls, mount, pipelineCalls, otherVars>>

\* useBackgroundRemoval's initial state (lines 42-45)
bgHookInit ==
  [isLoading |-> FALSE, isModelLoading |-> FALSE, loadingProgress |-> 0, error |-> NoError]

\* The parts of the program a specification does not exercise, as they are before
\* their first use.
SheetIdle ==
  /\ sheetArgs = [photoWidth |-> 35, photoHeight |-> 45, sheet |-> SheetById("a4"),
                  marginMm |-> 5, gapMm |-> 2]
  /\ sheetRet = NoResult

UnitsIdle ==
  /\ unitsArgs = [mm |-> Int2Num(0), pixels |-> 0, dpi |-> 300]
  /\ unitsRet = NoResult

PreviewIdle ==
  /\ selectedSheet = sheetSizes[1]
  /\ canvas = Null
  /\ draws = <<>>
  /\ downloads = <<>>
  /\ download = Null

BackgroundIdle ==
  /\ segmenter = 0
  /\ bgHook = bgHookInit
  /\ bgCalls = <<>>
  /\ bgArgs = [image |-> [naturalWidth |-> 1, naturalHeight |-> 1, pixels |-> << <<0, 0, 0>> >>],
               backgroundColor |-> <<255, 255, 255>>, result |-> <<>>]
  /\ bgRet = NoResult

\* Index before the first upload (lines 19-25)
WizardIdle ==
  /\ step = "upload"
  /\ originalImage = Null
  /\ croppedImage = Null
  /\ readers = <<>>

\* The picture exportCroppedImage takes of the editor's canvas (lines 189-194), by
\* the size the canvas has for the standard (lines 42-45).
croppedPicture(st) == [canvasWidth |-> canvasWidth(st), canvasHeight |-> canvasHeight(st)]

\* Index in the edit step, with PhotoEditor mounted on the uploaded photo.
WizardAtEdit ==
  /\ step = "edit"
  /\ originalImage = imageSrc
  /\ croppedImage = Null
  /\ readers = <<>>

\* Index in the export step, with SheetPreview mounted on the cropped photo.
WizardAtExport ==
  /\ step = "export"
  /\ originalImage = imageSrc
  /\ croppedImage = croppedPicture(standard)
  /\ readers = <<>>

EditorIdle ==
  /\ imageSrc = [width |-> Int2Num(400), height |-> Int2Num(400)]
  /\ detections = <<>>
  /\ standard = passportStandards[1]
  /\ image = Null
  /\ scale = Int2Num(1)
  /\ position = [x |-> Int2Num(0), y |-> Int2Num(0)]
  /\ showFaceBox = FALSE
  /\ hook = hookInit
  /\ detectorPromise = "null"
  /\ calls = <<>>
  /\ timers = <<>>
  /\ drawn = Null
  /\ lastCall = NoCall
  /\ mount = 1

Init ==
  /\ imageSrc \in ImageSources
  /\ detections \in DetectorResults
  /\ standard \in Standards
  /\ image = Null
  /\ scale = Int2Num(1)
  /\ position = [x |-> Int2Num(0), y |-> Int2Num(0)]
  /\ showFaceBox = FALSE
  /\ hook = hookInit
  /\ detectorPromise = "null"
  /\ calls = <<>>
  /\ timers = <<>>
  /\ drawn = Null
  /\ lastCall = NoCall
  /\ mount = 1
  /\ pipelineCalls = <<>>
  /\ SheetIdle
  /\ UnitsIdle
  /\ PreviewIdle
  /\ BackgroundIdle
  /\ WizardAtEdit

Next ==
  \/ ImageOnload
  \/ HandleReset
  \/ HandleAutoDetect
  \/ HandleAutoCenter
  \/ PipelineResolves
  \/ PipelineRejects
  \/ InferenceReturns
  \/ InferenceThrows
  \/ Revalidate

Spec == Init /\ [][Next]_vars

----------------------------------------------------------------------------
(* The editor within the wizard: PhotoEditor instances come and go *)

\* PhotoEditor instances mounted in all.
MaxMounts == 2

\* The wizard leaves the edit step (handleBack, or handleCropComplete by Confirm &
\* Continue) and enters it again (handleImageSelect, or handleBack from the export
\* step): the editor is unmounted and a new one is mounted, with fresh component and
\* hook state; detectFace calls and timers of the old one stay in flight, and
\* detectorPromise is the module's, not the component's.
EditorRemount ==
  /\ mount < MaxMounts
  /\ mount' = mount + 1
  /\ image' = Null
  /\ scale' = Int2Num(1)
  /\ position' = [x |-> Int2Num(0), y |-> Int2Num(0)]
  /\ showFaceBox' = FALSE
  /\ hook' = hookInit
  /\ drawn' = Null
  /\ UNCHANGED <<imageSrc, detections, standard, detectorPromise, calls, timers, lastCall,
                 pipelineCalls, otherVars>>

RemountDetections ==
  { <<>>,
    <<[label |-> "person", score |-> 90, box |-> Box(100, 50, 300, 300)]>>,
    <<[label |-> "person", score |-> 60, box |-> Box(150, 50, 250, 250)]>> }

RemountInit ==
  /\ imageSrc = [width |-> Int2Num(400), height |-> Int2Num(400)]
  /\ detections \in RemountDetections
  /\ standard = passportStandards[1]
  /\ image = Null
  /\ scale = Int2Num(1)
  /\ position = [x |-> Int2Num(0), y |-> Int2Num(0)]
  /\ showFaceBox = FALSE
  /\ hook = hookInit
  /\ detectorPromise = "null"
  /\ calls = <<>>
  /\ timers = <<>>
  /\ drawn = Null
  /\ lastCall = NoCall
  /\ mount = 1
  /\ pipelineCalls = <<>>
  /\ SheetIdle
  /\ UnitsIdle
  /\ PreviewIdle
  /\ BackgroundIdle
  /\ WizardAtEdit

RemountNext ==
  \/ Next
  \/ EditorRemount

SpecRemount == RemountInit /\ [][RemountNext]_vars

----------------------------------------------------------------------------
(* The editor while the user changes the country standard *)

\* The standards the user switches between: three of the seven of 35 x 45 mm.
EditorStandards == {st \in Standards : st.id \in {"uk", "eu", "india"}}

\* CountrySelector's onChange (part_000 lines 136-139) in the edit step: PhotoEditor
\* is rendered again with the new standard. For a standard of the same width and
\* height canvasWidth and canvasHeight are unchanged, so the image-loading effect
\* (lines 47-58) does not run again; drawCanvas does, for the new background color.
StandardChanges ==
  /\ \E st \in EditorStandards \ {standard} :
       /\ canvasWidth(st) = canvasWidth(standard)
       /\ canvasHeight(st) = canvasHeight(standard)
       /\ standard' = st
  /\ drawn' = IF image = Null THEN drawn ELSE drawCanvas(image, scale, position, standard')
  /\ UNCHANGED <<imageSrc, detections, image, scale, position, showFaceBox, hook,
                 processVars, lastCall, mount, pipelineCalls, otherVars>>

\* What the detector answers: nothing, a confident person, or a detection left to
\* the fallback whose box (45% of the photo's height, eye line at 71.75%) the three
\* standards judge differently.
StandardDetections ==
  { <<>>,
    <<[label |-> "person", score |-> 90, box |-> Box(100, 50, 300, 600)]>>,
    <<[label |-> "person", score |-> 60, box |-> Box(250, 100, 350, 460)]>> }

StandardInit ==
  /\ imageSrc = [width |-> Int2Num(600), height |-> Int2Num(800)]
  /\ detections \in StandardDetections
  /\ standard \in EditorStandards
  /\ image = Null
  /\ scale = Int2Num(1)
  /\ position = [x |-> Int2Num(0), y |-> Int2Num(0)]
  /\ showFaceBox = FALSE
  /\ hook = hookInit
  /\ detectorPromise = "null"
  /\ calls = <<>>
  /\ timers = <<>>
  /\ drawn = Null
  /\ lastCall = NoCall
  /\ mount = 1
  /\ pipelineCalls = <<>>
  /\ SheetIdle
  /\ UnitsIdle
  /\ PreviewIdle
  /\ BackgroundIdle
  /\ WizardAtEdit

StandardNext ==
  \/ Next
  \/ StandardChanges

SpecStandard == StandardInit /\ [][StandardNext]_vars

----------------------------------------------------------------------------
(* The editor's zoom controls *)

\* Photos of the fit scales 1.2, 0.16 and 4.8 on a square canvas.
ZoomImages ==
  { [width |-> Int2Num(400), height |-> Int2Num(400)],
    [width |-> Int2Num(4000), height |-> Int2Num(3000)],
    [width |-> Int2Num(100), height |-> Int2Num(100)] }

\* Positions of the slider (min 0.5, max 3, step 0.05) the user drags it to.
SliderValues == { Num(1, 2), Num(7, 4), Int2Num(3) }

zoomFrame ==
  <<imageSrc, detections, standard, image, position, showFaceBox, hook, processVars,
    lastCall, mount, pipelineCalls, otherVars>>

\* The zoom-out button (lines 361-367): setScale((s) => Math.max(0.5, s - 0.1))
ZoomOut ==
  /\ scale' = MathMax(Num(1, 2), Minus(scale, Num(1, 10)))
  /\ UNCHANGED zoomFrame
  /\ Redraw

\* The zoom-in button (lines 376-382): setScale((s) => Math.min(3, s + 0.1))
ZoomIn ==
  /\ scale' = Neg(MathMax(Neg(Int2Num(3)), Neg(Plus(scale, Num(1, 10)))))
  /\ UNCHANGED zoomFrame
  /\ Redraw

\* The slider (lines 368-375): onValueChange={([v]) => setScale(v)}
SliderChange ==
  /\ \E v \in SliderValues : scale' = v
  /\ UNCHANGED zoomFrame
  /\ Redraw

ZoomDetections ==
  { <<>>, <<[label |-> "person", score |-> 60, box |-> Box(150, 50, 250, 250)]>> }

ZoomInit ==
  /\ imageSrc \in ZoomImages
  /\ detections \in ZoomDetections
  /\ standard = passportStandards[1]
  /\ image = Null
  /\ scale = Int2Num(1)
  /\ position = [x |-> Int2Num(0), y |-> Int2Num(0)]
  /\ showFaceBox = FALSE
  /\ hook = hookInit
  /\ detectorPromise = "null"
  /\ calls = <<>>
  /\ timers = <<>>
  /\ drawn = Null
  /\ lastCall = NoCall
  /\ mount = 1
  /\ pipelineCalls = <<>>
  /\ SheetIdle
  /\ UnitsIdle
  /\ PreviewIdle
  /\ BackgroundIdle
  /\ WizardAtEdit

ZoomNext ==
  \/ Next
  \/ ZoomOut
  \/ ZoomIn
  \/ SliderChange

SpecZoom == ZoomInit /\ [][ZoomNext]_vars

----------------------------------------------------------------------------
(* Detection of one photo with many answers of the detector *)

\* Left and top edges, widths and heights of the person boxes the detector reports.
PersonEdges == {0, 10, 33}

PersonTops == {0, 17}

PersonWidths == {1, 5, 7, 100, 333}

PersonHeights == {1, 3, 10, 250}

WellFormedBoxes ==
  { Box(x, y, x + w, y + h) :
      x \in PersonEdges, y \in PersonTops, w \in PersonWidths, h \in PersonHeights }

\* One person, confident (score 0.9) or not (score 0.6, left to the fallback), or a
\* confident person after a more or a less confident one.
FaceBoxDetections ==
  { <<[label |-> "person", score |-> sc, box |-> b]>> : sc \in {60, 90}, b \in WellFormedBoxes }
    \cup { <<[label |-> "person", score |-> sc, box |-> Box(0, 0, 400, 400)],
              [label |-> "person", score |-> 90, box |-> b]>> :
             sc \in {80, 95}, b \in WellFormedBoxes }

FaceBoxInit ==
  /\ imageSrc = [width |-> Int2Num(400), height |-> Int2Num(400)]
  /\ detections \in FaceBoxDetections
  /\ standard = passportStandards[1]
  /\ image = Null
  /\ scale = Int2Num(1)
  /\ position = [x |-> Int2Num(0), y |-> Int2Num(0)]
  /\ showFaceBox = FALSE
  /\ hook = hookInit
  /\ detectorPromise = "null"
  /\ calls = <<>>
  /\ timers = <<>>
  /\ drawn = Null
  /\ lastCall = NoCall
  /\ mount = 1
  /\ pipelineCalls = <<>>
  /\ SheetIdle
  /\ UnitsIdle
  /\ PreviewIdle
  /\ BackgroundIdle
  /\ WizardAtEdit

SpecFaceBox == FaceBoxInit /\ [][Next]_vars

----------------------------------------------------------------------------
(* calculatePhotosPerSheet as a function of its arguments *)

SheetArgs ==
  { [photoWidth |-> st.width, photoHeight |-> st.height, sheet |-> sheet,
     marginMm |-> marginMm, gapMm |-> gapMm] :
      st \in Standards, sheet \in Sheets, marginMm \in 0..MaxMargin, gapMm \in 0..MaxGap }

\* The call of calculatePhotosPerSheet on the arguments drawn.
CallCalculatePhotosPerSheet ==
  /\ sheetRet = NoResult
  /\ sheetRet' = calculatePhotosPerSheet(sheetArgs.photoWidth, sheetArgs.photoHeight,
                                         sheetArgs.sheet, sheetArgs.marginMm, sheetArgs.gapMm)
  /\ UNCHANGED <<sheetArgs, editorVars, hook, processVars, wizardVars, lastCall, mount, pipelineCalls,
                 unitsVars, previewVars, backgroundVars>>

SheetInit ==
  /\ sheetArgs \in SheetArgs
  /\ sheetRet = NoResult
  /\ EditorIdle
  /\ pipelineCalls = <<>>
  /\ UnitsIdle
  /\ PreviewIdle
  /\ BackgroundIdle
  /\ WizardIdle

SheetNext == CallCalculatePhotosPerSheet

SpecSheet == SheetInit /\ [][SheetNext]_vars

----------------------------------------------------------------------------
(* mmToPixels and pixelsToMm as functions of their arguments *)

\* Lengths run from -2 mm to MaxMmTenths tenths of a millimetre.
MaxMmTenths == 3000

Dpis == {-300, -1, 0, 1, 72, 96, 150, 300, 600}

UnitsArgs ==
  { [mm |-> Num(k, 10), pixels |-> px, dpi |-> dpi] :
      k \in -20..MaxMmTenths, px \in {0, 413}, dpi \in Dpis }

\* mmToPixels(mm, dpi) on the arguments drawn
CallMmToPixels ==
  /\ unitsRet = NoResult
  /\ unitsRet' = [op |-> "mmToPixels",
                  pixels |-> mmToPixels(unitsArgs.mm, Int2Num(unitsArgs.dpi))]
  /\ UNCHANGED <<unitsArgs, editorVars, hook, processVars, wizardVars, lastCall, mount, pipelineCalls,
                 sheetVars, previewVars, backgroundVars>>

\* pixelsToMm(pixels, dpi) on the arguments drawn
CallPixelsToMm ==
  /\ unitsRet = NoResult
  /\ unitsRet' = [op |-> "pixelsToMm",
                  mm |-> pixelsToMm(Int2Num(unitsArgs.pixels), Int2Num(unitsArgs.dpi))]
  /\ UNCHANGED <<unitsArgs, editorVars, hook, processVars, wizardVars, lastCall, mount, pipelineCalls,
                 sheetVars, previewVars, backgroundVars>>

\* pixelsToMm(mmToPixels(mm, dpi), dpi): the pixels just computed are converted back
CallRoundTrip ==
  /\ unitsRet.op = "mmToPixels"
  /\ unitsRet' = [op |-> "roundTrip", pixels |-> unitsRet.pixels,
                  mm |-> pixelsToMm(unitsRet.pixels, Int2Num(unitsArgs.dpi))]
  /\ UNCHANGED <<unitsArgs, editorVars, hook, processVars, wizardVars, lastCall, mount, pipelineCalls,
                 sheetVars, previewVars, backgroundVars>>

UnitsInit ==
  /\ unitsArgs \in UnitsArgs
  /\ unitsRet = NoResult
  /\ EditorIdle
  /\ pipelineCalls = <<>>
  /\ SheetIdle
  /\ PreviewIdle
  /\ BackgroundIdle
  /\ WizardIdle

UnitsNext ==
  \/ CallMmToPixels
  \/ CallPixelsToMm
  \/ CallRoundTrip

SpecUnits == UnitsInit /\ [][UnitsNext]_vars

----------------------------------------------------------------------------
(* SheetPreview: the export step of the wizard *)

\* handleDownload calls waiting for their image at a time.
MaxDownloads == 2

\* img.onload of a drawSheet call (lines 56-70) and the rest of the call (lines
\* 73-95): the cells and then the cut guides of the call's own layout are drawn
\* over what the canvas shows. The canvas keeps which calls painted on it since it
\* was last cleared; canvasCells and canvasGuides are what they drew.
DrawSheetImageLoads ==
  \E i \in 1..Len(draws) :
    LET d == draws[i]
    IN  /\ canvas' = [canvas EXCEPT !.painted = Append(@, d)]
        /\ draws' = RemoveAt(draws, i)
        /\ UNCHANGED <<selectedSheet, downloads, download, editorVars, hook, processVars, wizardVars,
                       lastCall, mount, pipelineCalls, sheetVars, unitsVars, backgroundVars>>

\* handleDownload up to its await (lines 111-135)
HandleDownload ==
  /\ canvas # Null
  /\ Len(downloads) < MaxDownloads
  /\ downloads' = Append(downloads, [standard |-> standard, sheet |-> selectedSheet])
  /\ UNCHANGED <<selectedSheet, canvas, draws, download, editorVars, hook, processVars, wizardVars,
                 lastCall, mount, pipelineCalls, sheetVars, unitsVars, backgroundVars>>

\* img.onload of a handleDownload call and the rest of the call (lines 136-157):
\* the sheet is drawn on the temporary canvas and saved; downloadedSheet is what the
\* saved file holds.
DownloadImageLoads ==
  \E i \in 1..Len(downloads) :
    /\ download' = downloads[i]
    /\ downloads' = RemoveAt(downloads, i)
    /\ UNCHANGED <<selectedSheet, canvas, draws, editorVars, hook, processVars, wizardVars, lastCall,
                   mount, pipelineCalls, sheetVars, unitsVars, backgroundVars>>

\* Everything drawn on the preview canvas since it was last cleared.
canvasCells ==
  UNION { drawSheetCells(canvas.painted[i].standard, canvas.painted[i].sheet, FALSE) :
            i \in 1..Len(canvas.painted) }

canvasGuides ==
  UNION { drawSheetGuides(canvas.painted[i].standard, canvas.painted[i].sheet, FALSE) :
            i \in 1..Len(canvas.painted) }

\* The sheet in the file last downloaded.
downloadedSheet == handleDownloadSheet(download.standard, download.sheet)

\* SheetPreview has been mounted: its effect has run once.
PreviewInit ==
  /\ standard \in Standards
  /\ selectedSheet \in Sheets
  /\ canvas = [width |-> previewCanvasSize(selectedSheet).width,
               height |-> previewCanvasSize(selectedSheet).height,
               painted |-> <<>>]
  /\ draws = <<[standard |-> standard, sheet |-> selectedSheet]>>
  /\ downloads = <<>>
  /\ download = Null
  /\ imageSrc = [width |-> Int2Num(400), height |-> Int2Num(400)]
  /\ detections = <<>>
  /\ image = Null
  /\ scale = Int2Num(1)
  /\ position = [x |-> Int2Num(0), y |-> Int2Num(0)]
  /\ showFaceBox = FALSE
  /\ hook = hookInit
  /\ detectorPromise = "null"
  /\ calls = <<>>
  /\ timers = <<>>
  /\ drawn = Null
  /\ lastCall = NoCall
  /\ mount = 1
  /\ pipelineCalls = <<>>
  /\ SheetIdle
  /\ UnitsIdle
  /\ BackgroundIdle
  /\ WizardAtExport

PreviewNext ==
  \/ DrawSheetImageLoads
  \/ HandleDownload
  \/ DownloadImageLoads

SpecPreview == PreviewInit /\ [][PreviewNext]_vars

----------------------------------------------------------------------------
(* SheetPreview while the user changes the sheet size or the standard *)

\* drawSheet calls waiting for their image at a time.
MaxDraws == 2

\* The sheets and standards the user switches between.
PreviewSheets == {sh \in Sheets : sh.id \in {"4x6", "a4", "a5"}}

PreviewStandards == {st \in Standards : st.id \in {"us", "uk"}}

\* SheetPreview's effect (lines 98-109), run after a render in which drawSheet or
\* the sheet's size changed: assigning canvas.width and canvas.height clears the
\* canvas, and drawSheet(false) fills it white and starts loading its image
\* (lines 28-54); the call then waits for img.onload with the standard and sheet
\* of its render.
previewEffect(st, sh) ==
  /\ canvas' = [width |-> previewCanvasSize(sh).width,
                height |-> previewCanvasSize(sh).height,
                painted |-> <<>>]
  /\ draws' = Append(draws, [standard |-> st, sheet |-> sh])

\* SheetSizeSelector's onChange (part_000 lines 140-145) in the export step.
PreviewSheetChanges ==
  /\ Len(draws) < MaxDraws
  /\ \E sh \in PreviewSheets \ {selectedSheet} :
       /\ selectedSheet' = sh
       /\ previewEffect(standard, sh)
  /\ UNCHANGED <<downloads, download, editorVars, hook, processVars, wizardVars, lastCall,
                 mount, pipelineCalls, sheetVars, unitsVars, backgroundVars>>

\* CountrySelector's onChange (part_000 lines 136-139) in the export step.
PreviewStandardChanges ==
  /\ Len(draws) < MaxDraws
  /\ \E st \in PreviewStandards \ {standard} :
       /\ standard' = st
       /\ previewEffect(st, selectedSheet)
  /\ UNCHANGED <<selectedSheet, downloads, download, imageSrc, detections, image, scale,
                 position, showFaceBox, drawn, hook, processVars, wizardVars, lastCall,
                 mount, pipelineCalls, sheetVars, unitsVars, backgroundVars>>

PreviewChangeInit ==
  /\ standard \in PreviewStandards
  /\ selectedSheet \in PreviewSheets
  /\ canvas = [width |-> previewCanvasSize(selectedSheet).width,
               height |-> previewCanvasSize(selectedSheet).height,
               painted |-> <<>>]
  /\ draws = <<[standard |-> standard, sheet |-> selectedSheet]>>
  /\ downloads = <<>>
  /\ download = Null
  /\ imageSrc = [width |-> Int2Num(400), height |-> Int2Num(400)]
  /\ detections = <<>>
  /\ image = Null
  /\ scale = Int2Num(1)
  /\ position = [x |-> Int2Num(0), y |-> Int2Num(0)]
  /\ showFaceBox = FALSE
  /\ hook = hookInit
  /\ detectorPromise = "null"
  /\ calls = <<>>
  /\ timers = <<>>
  /\ drawn = Null
  /\ lastCall = NoCall
  /\ mount = 1
  /\ pipelineCalls = <<>>
  /\ SheetIdle
  /\ UnitsIdle
  /\ BackgroundIdle
  /\ WizardAtExport

PreviewChangeNext ==
  \/ DrawSheetImageLoads
  \/ PreviewSheetChanges
  \/ PreviewStandardChanges

SpecPreviewChange == PreviewChangeInit /\ [][PreviewChangeNext]_vars

----------------------------------------------------------------------------
(* useBackgroundRemoval: loadModel and removeBackground as state changes *)

\* removeBackground calls in flight at a time, and pipeline() invocations in all.
MaxBgCalls == 2

MaxLoads == 2

Palette == { <<200, 10, 10>>, <<10, 10, 200>> }

BgImages ==
  { [naturalWidth |-> 2, naturalHeight |-> 1, pixels |-> <<a, b>>] : a, b \in Palette }

BgColors == { <<255, 255, 255>>, <<240, 240, 240>> }

FullMasks == { [width |-> 2, height |-> 1, data |-> <<a, b>>] : a, b \in {0, 1} }

Masks == FullMasks \cup { [width |-> 1, height |-> 1, data |-> <<a>>] : a \in {0, 1} }

Segment(label, score, mask) == [label |-> label, score |-> score, mask |-> mask]

\* What the model may answer: nothing; a person; a person after a wall; only a
\* wall with a score; unscored segments without a person; a wall alone; a person
\* without a mask.
BgResults ==
  {<<>>}
    \cup { <<Segment("person", 0, m)>> : m \in Masks }
    \cup { <<Segment("wall", 0, w), Segment("person", 0, m)>> : w, m \in FullMasks }
    \cup { <<Segment("wall", 90, m)>> : m \in FullMasks }
    \cup { <<Segment("chair", 0, a), Segment("wall", 0, w), Segment("plant", 0, b)>> :
             a, b \in FullMasks, w \in {[width |-> 2, height |-> 1, data |-> <<1, 1>>]} }
    \cup { <<Segment("wall", 0, [width |-> 2, height |-> 1, data |-> <<1, 1>>])>>,
           <<Segment("person", 0, Null)>> }

BgArgs ==
  { [image |-> img, backgroundColor |-> bg, result |-> res] :
      img \in BgImages, bg \in BgColors, res \in BgResults }

\* removeBackground up to its first await that waits (lines 81-85) with loadModel
\* (lines 47-65): with a segmenter it goes on to call the model (lines 87-103),
\* without one it invokes pipeline().
RemoveBackgroundStart ==
  /\ Len(bgCalls) < MaxBgCalls
  /\ LET started == [bgHook EXCEPT !.isLoading = TRUE, !.error = NoError]
     IN  IF segmenter # 0
         THEN /\ bgCalls' = Append(bgCalls, [at |-> "inference", model |-> segmenter])
              /\ bgHook' = started
              /\ UNCHANGED pipelineCalls
         ELSE /\ Len(pipelineCalls) < MaxLoads
              /\ pipelineCalls' = Append(pipelineCalls,
                                         [task |-> "image-segmentation", mount |-> 0])
              /\ bgCalls' = Append(bgCalls, [at |-> "loading", model |-> Len(pipelineCalls) + 1])
              /\ bgHook' = [started EXCEPT !.isModelLoading = TRUE, !.loadingProgress = 0]
  /\ UNCHANGED <<segmenter, bgArgs, bgRet, editorVars, hook, processVars, wizardVars, lastCall, mount,
                 sheetVars, unitsVars, previewVars>>

\* pipeline() resolves for call i (lines 55-67, 71-73): the call stores its model in
\* segmenter and goes on to call it (lines 87-103).
SegmenterLoads ==
  \E i \in 1..Len(bgCalls) :
    /\ bgCalls[i].at = "loading"
    /\ segmenter' = bgCalls[i].model
    /\ bgHook' = [bgHook EXCEPT !.isModelLoading = FALSE]
    /\ bgCalls' = [bgCalls EXCEPT ![i].at = "inference"]
    /\ UNCHANGED <<bgArgs, bgRet, pipelineCalls, editorVars, hook, processVars, wizardVars, lastCall,
                   mount, sheetVars, unitsVars, previewVars>>

\* removeBackground's catch and finally (lines 260-268)
removeBackgroundFailed(hk, message) == [hk EXCEPT !.error = message, !.isLoading = FALSE]

\* pipeline() rejects for call i (lines 68-73, 260-268).
SegmenterLoadFails ==
  \E i \in 1..Len(bgCalls) :
    /\ bgCalls[i].at = "loading"
    /\ bgHook' = removeBackgroundFailed([bgHook EXCEPT !.isModelLoading = FALSE], ErrModel)
    /\ bgCalls' = RemoveAt(bgCalls, i)
    /\ bgRet' = [step |-> "loadModel", outcome |-> [ok |-> FALSE, error |-> ErrModel]]
    /\ UNCHANGED <<segmenter, bgArgs, pipelineCalls, editorVars, hook, processVars, wizardVars, lastCall,
                   mount, sheetVars, unitsVars, previewVars>>

\* The model answers call i (lines 103-268).
SegmentationReturns ==
  \E i \in 1..Len(bgCalls) :
    LET outcome == removeBackgroundOutcome(bgArgs.image, bgArgs.backgroundColor, bgArgs.result)
    IN  /\ bgCalls[i].at = "inference"
        /\ bgHook' = IF outcome.ok THEN [bgHook EXCEPT !.isLoading = FALSE]
                     ELSE removeBackgroundFailed(bgHook, outcome.error)
        /\ bgCalls' = RemoveAt(bgCalls, i)
        /\ bgRet' = [step |-> "composite", outcome |-> outcome]
        /\ UNCHANGED <<segmenter, bgArgs, pipelineCalls, editorVars, hook, processVars, wizardVars,
                       lastCall, mount, sheetVars, unitsVars, previewVars>>

\* The model throws on call i (lines 103, 260-268).
SegmentationThrows ==
  \E i \in 1..Len(bgCalls) :
    /\ bgCalls[i].at = "inference"
    /\ bgHook' = removeBackgroundFailed(bgHook, ErrModel)
    /\ bgCalls' = RemoveAt(bgCalls, i)
    /\ bgRet' = [step |-> "model", outcome |-> [ok |-> FALSE, error |-> ErrModel]]
    /\ UNCHANGED <<segmenter, bgArgs, pipelineCalls, editorVars, hook, processVars, wizardVars, lastCall,
                   mount, sheetVars, unitsVars, previewVars>>

BackgroundInit ==
  /\ bgArgs \in BgArgs
  /\ segmenter = 0
  /\ bgHook = bgHookInit
  /\ bgCalls = <<>>
  /\ bgRet = NoResult
  /\ EditorIdle
  /\ pipelineCalls = <<>>
  /\ SheetIdle
  /\ UnitsIdle
  /\ PreviewIdle
  /\ WizardIdle

BackgroundNext ==
  \/ RemoveBackgroundStart
  \/ SegmenterLoads
  \/ SegmenterLoadFails
  \/ SegmentationReturns
  \/ SegmentationThrows

SpecBackground == BackgroundInit /\ [][BackgroundNext]_vars

----------------------------------------------------------------------------
(* Index: the upload / edit / export wizard *)

\* FileReaders pending at a time.
MaxReaders == 2

\* What a FileReader has in result when onloadend fires: the photo's data URL, or
\* null when the read failed.
ReaderResults == ImageSources \cup {Null}

\* What the wizard's handlers never touch.
wizardFrame ==
  <<imageSrc, detections, image, scale, position, showFaceBox, drawn, hook, processVars,
    lastCall, mount, pipelineCalls, sheetVars, unitsVars, canvas, draws, downloads,
    download, backgroundVars>>

\* PhotoUploader.handleFile for an image file (lines 13-24), from a drop or from
\* the file input; the uploader is rendered in the upload step only.
HandleFile ==
  /\ step = "upload"
  /\ Len(readers) < MaxReaders
  /\ \E result \in ReaderResults : readers' = Append(readers, result)
  /\ UNCHANGED <<step, originalImage, croppedImage, standard, selectedSheet, wizardFrame>>

\* handleImageSelect (part_000 lines 27-30)
handleImageSelect(preview) ==
  /\ originalImage' = preview
  /\ step' = "edit"

\* reader.onloadend of a pending FileReader (PhotoUploader lines 17-19)
ReaderLoadEnd ==
  \E i \in 1..Len(readers) :
    /\ handleImageSelect(readers[i])
    /\ readers' = RemoveAt(readers, i)
    /\ UNCHANGED <<croppedImage, standard, selectedSheet, wizardFrame>>

\* handleCropComplete (part_000 lines 32-35), called by the editor's Confirm &
\* Continue (exportCroppedImage); the editor is rendered in the edit step when
\* there is an original image.
HandleCropComplete ==
  /\ step = "edit"
  /\ originalImage # Null
  /\ croppedImage' = croppedPicture(standard)
  /\ step' = "export"
  /\ UNCHANGED <<originalImage, readers, standard, selectedSheet, wizardFrame>>

\* handleBack (part_000 lines 37-45); the Back button is rendered outside the
\* upload step.
HandleBack ==
  /\ step # "upload"
  /\ IF step = "edit"
     THEN /\ step' = "upload"
          /\ originalImage' = Null
          /\ UNCHANGED croppedImage
     ELSE /\ step' = "edit"
          /\ croppedImage' = Null
          /\ UNCHANGED originalImage
  /\ UNCHANGED <<readers, standard, selectedSheet, wizardFrame>>

\* handleStartOver (part_000 lines 47-51); Create Another Set is rendered with
\* SheetPreview.
HandleStartOver ==
  /\ step = "export"
  /\ croppedImage # Null
  /\ step' = "upload"
  /\ originalImage' = Null
  /\ croppedImage' = Null
  /\ UNCHANGED <<readers, standard, selectedSheet, wizardFrame>>

\* CountrySelector's onChange (part_000 lines 136-139), rendered in every step.
SetSelectedStandard ==
  /\ \E st \in Standards \ {standard} : standard' = st
  /\ UNCHANGED <<wizardVars, selectedSheet, wizardFrame>>

\* SheetSizeSelector's onChange (part_000 lines 140-145), rendered in the export step.
SetSelectedSheet ==
  /\ step = "export"
  /\ \E sh \in Sheets \ {selectedSheet} : selectedSheet' = sh
  /\ UNCHANGED <<wizardVars, standard, wizardFrame>>

WizardInit ==
  /\ WizardIdle
  /\ EditorIdle
  /\ pipelineCalls = <<>>
  /\ SheetIdle
  /\ UnitsIdle
  /\ PreviewIdle
  /\ BackgroundIdle

WizardNext ==
  \/ HandleFile
  \/ ReaderLoadEnd
  \/ HandleCropComplete
  \/ HandleBack
  \/ HandleStartOver
  \/ SetSelectedStandard
  \/ SetSelectedSheet

SpecWizard == WizardInit /\ [][WizardNext]_vars

----------------------------------------------------------------------------
(* Claims about calculatePhotosPerSheet, checked under SpecSheet *)

usableWidthOf(a) == Minus(a.sheet.width, Int2Num(2 * a.marginMm))

usableHeightOf(a) == Minus(a.sheet.height, Int2Num(2 * a.marginMm))

\* n photos and n-1 gaps fit in `usable`, and n+1 photos with n gaps do not.
LargestFit(n, photo, gap, usable) ==
  /\ LE(Int2Num(n * photo + (n - 1) * gap), usable)
  /\ LT(usable, Int2Num((n + 1) * photo + n * gap))

\* C1: calculatePhotosPerSheet never returns a negative count: columns, rows and
\* total are all >= 0 for every margin and gap, also when the usable width or
\* height is negative, and a usable width smaller than the photo width gives
\* columns = 0 and total = 0.
C1_NeverNegative ==
  sheetRet # NoResult =>
    /\ GE(sheetRet.columns, Int2Num(0))
    /\ GE(sheetRet.rows, Int2Num(0))
    /\ GE(sheetRet.total, Int2Num(0))
    /\ (LT(usableWidthOf(sheetArgs), Int2Num(sheetArgs.photoWidth)) =>
          sheetRet.columns = Int2Num(0) /\ sheetRet.total = Int2Num(0))

\* C2: for non-negative usable space, columns is the largest n such that n photos
\* and n-1 gaps fit in the usable width, rows likewise for the height, and
\* total = columns * rows; A4 with a 35x45 photo, margin 5 and gap 2 gives 5 x 6 = 30.
C2_LargestFit ==
  (/\ sheetRet # NoResult
   /\ GE(usableWidthOf(sheetArgs), Int2Num(0))
   /\ GE(usableHeightOf(sheetArgs), Int2Num(0))) =>
    /\ sheetRet.columns.d = 1
    /\ sheetRet.rows.d = 1
    /\ LargestFit(sheetRet.columns.n, sheetArgs.photoWidth, sheetArgs.gapMm,
                  usableWidthOf(sheetArgs))
    /\ LargestFit(sheetRet.rows.n, sheetArgs.photoHeight, sheetArgs.gapMm,
                  usableHeightOf(sheetArgs))
    /\ sheetRet.total = Int2Num(sheetRet.columns.n * sheetRet.rows.n)
    /\ ((/\ sheetArgs.sheet.id = "a4"
         /\ sheetArgs.photoWidth = 35 /\ sheetArgs.photoHeight = 45
         /\ sheetArgs.marginMm = 5 /\ sheetArgs.gapMm = 2) =>
          sheetRet = [columns |-> Int2Num(5), rows |-> Int2Num(6), total |-> Int2Num(30)])

\* The A4 example has been computed.
C2_Witness ==
  /\ sheetRet # NoResult
  /\ sheetArgs.sheet.id = "a4"
  /\ sheetArgs.photoWidth = 35 /\ sheetArgs.photoHeight = 45
  /\ sheetArgs.marginMm = 5 /\ sheetArgs.gapMm = 2
  /\ sheetRet.total = Int2Num(30)

----------------------------------------------------------------------------
(* Claims about calculateAutoPosition and the renderer, checked under Spec *)

callFaceHeight == Minus(lastCall.face.box.ymax, lastCall.face.box.ymin)

callFaceCenterX == Over(Plus(lastCall.face.box.xmin, lastCall.face.box.xmax), Int2Num(2))

callEyeY == Plus(lastCall.face.box.ymin, Times(callFaceHeight, Num(35, 100)))

\* The solver's result is what the editor shows.
AutoCenterApplied ==
  /\ lastCall.op = "calculateAutoPosition"
  /\ scale = lastCall.ret.scale
  /\ position = lastCall.ret.position

\* C3: with the solver's scale and position applied by the renderer, the scaled
\* face center is at canvasWidth/2 and the eye line (ymin + 0.35*faceHeight) is at
\* canvasHeight*(1 - eyeLineFromBottom/100), for every face box with faceHeight > 0.
C3_AnchorOnTarget ==
  (AutoCenterApplied /\ LT(Int2Num(0), callFaceHeight)) =>
    /\ Plus(drawn.x, Times(callFaceCenterX, scale)) = Over(lastCall.canvasWidth, Int2Num(2))
    /\ Plus(drawn.y, Times(callEyeY, scale))
         = Times(lastCall.canvasHeight,
                 Minus(Int2Num(1),
                       Over(Int2Num(lastCall.standard.eyeLineFromBottom), Int2Num(100))))

\* C4: calculateAutoPosition called with faceHeight <= 0 fails with a
\* DegenerateGeometry error instead of returning a transform.
C4_DegenerateRejected ==
  (lastCall.op = "calculateAutoPosition" /\ LE(callFaceHeight, Int2Num(0))) =>
    lastCall.ret = [error |-> "DegenerateGeometry"]

\* C5: for faceHeight > 0 the scale is canvasHeight * ((min + max)/2/100) / faceHeight,
\* so the scaled face height is the band's midpoint times the canvas height; for
\* faceHeight 100, canvasHeight 400 and the band 50..69 it is 2.38.
C5_ScaleIsBandMidpoint ==
  (lastCall.op = "calculateAutoPosition" /\ LT(Int2Num(0), callFaceHeight)) =>
    /\ Times(Times(lastCall.ret.scale, callFaceHeight), Int2Num(200))
         = Times(lastCall.canvasHeight,
                 Int2Num(lastCall.standard.headHeightMin + lastCall.standard.headHeightMax))
    /\ ((/\ callFaceHeight = Int2Num(100)
         /\ lastCall.canvasHeight = Int2Num(400)
         /\ lastCall.standard.headHeightMin = 50
         /\ lastCall.standard.headHeightMax = 69) =>
          lastCall.ret.scale = Num(238, 100))

\* The solver has run on the example: faceHeight 100, canvasHeight 400, band 50..69.
C5_Witness ==
  /\ lastCall.op = "calculateAutoPosition"
  /\ callFaceHeight = Int2Num(100)
  /\ lastCall.canvasHeight = Int2Num(400)
  /\ lastCall.standard.id = "us"
  /\ lastCall.ret.scale = Num(238, 100)

----------------------------------------------------------------------------
(* Claims about validateFace, checked under Spec *)

\* C6: headHeightValid holds exactly when headHeightPercent =
\* (ymax - ymin)/imageHeight*100 lies in [headHeightMin*0.8, headHeightMax*1.2],
\* bounds included; for the US standard 60% is valid and 30% is too small.
C6_HeadHeightBand ==
  lastCall.op = "validateFace" =>
    LET r == lastCall.ret
        st == lastCall.standard
        fh1000 == Times(callFaceHeight, Int2Num(1000))
    IN  /\ Times(r.headHeightPercent, lastCall.imageHeight) = Times(callFaceHeight, Int2Num(100))
        /\ r.headHeightValid <=>
             (/\ LE(Times(Int2Num(8 * st.headHeightMin), lastCall.imageHeight), fh1000)
              /\ LE(fh1000, Times(Int2Num(12 * st.headHeightMax), lastCall.imageHeight)))
        /\ (st.id = "us" /\ r.headHeightPercent = Int2Num(60)) => r.headHeightValid
        /\ (st.id = "us" /\ r.headHeightPercent = Int2Num(30)) =>
             (~r.headHeightValid /\ Head(r.messages) = MsgTooSmall)

\* A head of exactly headHeightMin*0.8 = 40% was validated for the US standard.
C6_Witness ==
  /\ lastCall.op = "validateFace"
  /\ lastCall.standard.id = "us"
  /\ lastCall.ret.headHeightPercent = Int2Num(40)
  /\ lastCall.ret.headHeightValid

\* C7: eyeLineValid holds exactly when |eyeLinePercent - eyeLineFromBottom| <= 15,
\* where eyeLinePercent = (imageHeight - (ymin + 0.35*faceHeight))/imageHeight*100;
\* a difference of exactly 15 is valid.
C7_EyeLineTolerance ==
  lastCall.op = "validateFace" =>
    LET r == lastCall.ret
        H == lastCall.imageHeight
        fromBottom100 == Times(Minus(H, callEyeY), Int2Num(100))
    IN  /\ Times(r.eyeLinePercent, H) = fromBottom100
        /\ r.eyeLineValid <=>
             LE(MathAbs(Minus(fromBottom100,
                              Times(Int2Num(lastCall.standard.eyeLineFromBottom), H))),
                Times(Int2Num(15), H))

\* An eye line exactly 15 points off the standard's was validated.
C7_Witness ==
  /\ lastCall.op = "validateFace"
  /\ MathAbs(Minus(lastCall.ret.eyeLinePercent,
                   Int2Num(lastCall.standard.eyeLineFromBottom))) = Int2Num(15)
  /\ lastCall.ret.eyeLineValid

\* C8: centeredValid holds exactly when centerOffset =
\* |(xmin+xmax)/2 - imageWidth/2| / imageWidth * 100 is <= 10, whatever the standard;
\* an offset of exactly 10 is valid.
C8_Centered ==
  lastCall.op = "validateFace" =>
    LET r == lastCall.ret
        W == lastCall.imageWidth
        off == MathAbs(Minus(Plus(lastCall.face.box.xmin, lastCall.face.box.xmax), W))
    IN  /\ Times(r.centerOffset, Times(Int2Num(2), W)) = Times(off, Int2Num(100))
        /\ r.centeredValid <=> LE(Times(off, Int2Num(100)), Times(Int2Num(20), W))

\* A face exactly 10% off center was validated.
C8_Witness ==
  /\ lastCall.op = "validateFace"
  /\ lastCall.ret.centerOffset = Int2Num(10)
  /\ lastCall.ret.centeredValid

MessageRank(m) ==
  IF m \in {MsgTooSmall, MsgTooLarge} THEN 1
  ELSE IF m \in {MsgTooLow, MsgTooHigh} THEN 2
  ELSE IF m = MsgNotCentered THEN 3
  ELSE 4

\* C9: the messages hold one directional message per failing dimension in the order
\* head height, eye line, centering; the list is never empty, and it is the single
\* success message exactly when isValid, i.e. when all three dimensions are valid.
C9_Messages ==
  lastCall.op = "validateFace" =>
    LET r == lastCall.ret
        m == r.messages
        st == lastCall.standard
        failing == (IF r.headHeightValid THEN 0 ELSE 1)
                     + (IF r.eyeLineValid THEN 0 ELSE 1)
                     + (IF r.centeredValid THEN 0 ELSE 1)
        Has(rank) == \E i \in 1..Len(m) : MessageRank(m[i]) = rank
        In(msg) == \E i \in 1..Len(m) : m[i] = msg
    IN  /\ Len(m) >= 1
        /\ r.isValid <=> (r.headHeightValid /\ r.eyeLineValid /\ r.centeredValid)
        /\ (m = <<MsgMeets>>) <=> r.isValid
        /\ ~r.isValid =>
             /\ Len(m) = failing
             /\ Has(1) <=> ~r.headHeightValid
             /\ Has(2) <=> ~r.eyeLineValid
             /\ Has(3) <=> ~r.centeredValid
             /\ \A i, j \in 1..Len(m) : i < j => MessageRank(m[i]) < MessageRank(m[j])
             /\ In(MsgTooSmall) =>
                  LT(r.headHeightPercent, Times(Int2Num(st.headHeightMin), Num(8, 10)))
             /\ In(MsgTooLarge) =>
                  LT(Times(Int2Num(st.headHeightMax), Num(12, 10)), r.headHeightPercent)
             /\ In(MsgTooLow) => LT(r.eyeLinePercent, Int2Num(st.eyeLineFromBottom))
             /\ In(MsgTooHigh) => LT(Int2Num(st.eyeLineFromBottom), r.eyeLinePercent)

\* A report in which all three dimensions fail was built.
C9_Witness ==
  /\ lastCall.op = "validateFace"
  /\ ~lastCall.ret.headHeightValid
  /\ ~lastCall.ret.eyeLineValid
  /\ ~lastCall.ret.centeredValid
  /\ Len(lastCall.ret.messages) = 3

callMalformed ==
  \/ GE(lastCall.face.box.xmin, lastCall.face.box.xmax)
  \/ GE(lastCall.face.box.ymin, lastCall.face.box.ymax)
  \/ LE(lastCall.imageWidth, Int2Num(0))
  \/ LE(lastCall.imageHeight, Int2Num(0))

\* C11: validateFace and calculateAutoPosition called with a malformed face box
\* (xmin >= xmax or ymin >= ymax) or a non-positive image width or height fail with
\* InvalidArgument and return no report or transform.
C11_MalformedRejected ==
  (lastCall.op \in {"validateFace", "calculateAutoPosition"} /\ callMalformed) =>
    lastCall.ret = [error |-> "InvalidArgument"]

----------------------------------------------------------------------------
(* Claims about mmToPixels and pixelsToMm, checked under SpecUnits *)

\* C12: mmToPixels and pixelsToMm called with dpi <= 0 fail with InvalidArgument and
\* return no number.
C12_DpiRejected ==
  (unitsRet # NoResult /\ unitsArgs.dpi <= 0) => unitsRet = [error |-> "InvalidArgument"]

\* C13: for every dpi > 0 and mm >= 0, mmToPixels(mm, dpi) is a non-negative integer
\* and |pixelsToMm(mmToPixels(mm, dpi), dpi) - mm| <= 25.4/dpi.
C13_RoundTripBound ==
  (/\ unitsRet.op \in {"mmToPixels", "roundTrip"}
   /\ unitsArgs.dpi > 0
   /\ GE(unitsArgs.mm, Int2Num(0))) =>
    /\ unitsRet.pixels.d = 1
    /\ unitsRet.pixels.n >= 0
    /\ unitsRet.op = "roundTrip" =>
         LE(Times(MathAbs(Minus(unitsRet.mm, unitsArgs.mm)), Int2Num(unitsArgs.dpi)),
            Num(254, 10))

\* 35 mm at 300 dpi went to 413 pixels and back to a length that is not 35 mm.
C13_Witness ==
  /\ unitsRet.op = "roundTrip"
  /\ unitsArgs.dpi = 300
  /\ unitsArgs.mm = Int2Num(35)
  /\ unitsRet.pixels = Int2Num(413)
  /\ unitsRet.mm # unitsArgs.mm

----------------------------------------------------------------------------
(* Claims about SheetPreview, checked under SpecPreview *)

\* The preview canvas shows one drawing, made for the standard and sheet of the
\* sheet last downloaded.
PreviewShowsDownloaded ==
  /\ download # Null
  /\ canvas.painted = <<[standard |-> download.standard, sheet |-> download.sheet]>>

\* C14: preview and export use the same layout: for every standard and sheet, the
\* preview (drawSheet, scale 0.5) and the export (handleDownload, scale 1) place the
\* same columns x rows cells, and each preview cell's x, y, width and height are the
\* export cell's values times the preview scale.
C14_SameLayout ==
  PreviewShowsDownloaded =>
    LET layout == calculatePhotosPerSheet(download.standard.width, download.standard.height,
                                          download.sheet, 5, 2)
        grid == (0..(layout.columns.n - 1)) \X (0..(layout.rows.n - 1))
    IN  /\ {<<c.col, c.row>> : c \in canvasCells} = grid
        /\ {<<c.col, c.row>> : c \in downloadedSheet.cells} = grid
        /\ Cardinality(canvasCells) = Cardinality(grid)
        /\ Cardinality(downloadedSheet.cells) = Cardinality(grid)
        /\ \A c \in canvasCells : \E e \in downloadedSheet.cells :
             /\ e.col = c.col /\ e.row = c.row
             /\ c.x = Times(e.x, Num(1, 2))
             /\ c.y = Times(e.y, Num(1, 2))
             /\ c.width = Times(e.width, Num(1, 2))
             /\ c.height = Times(e.height, Num(1, 2))

\* A 35 x 45 photo on A4 is shown and was downloaded: 30 cells each, the second
\* column at 413 + 24 + 59 = 496 pixels in the export and at 248 in the preview.
C14_Witness ==
  /\ PreviewShowsDownloaded
  /\ download.sheet.id = "a4"
  /\ download.standard.id = "uk"
  /\ Cardinality(downloadedSheet.cells) = 30
  /\ \E e \in downloadedSheet.cells : e.col = 1 /\ e.x = Int2Num(496)
  /\ \E c \in canvasCells : c.col = 1 /\ c.x = Int2Num(248)

\* The corner marks a sheet carries when every cell has one of length 10 * scale at
\* its top-left corner.
GuidesFor(cells, sc) ==
  { [col |-> c.col, row |-> c.row, x |-> c.x, y |-> c.y, length |-> Times(Int2Num(10), sc)] :
      c \in cells }

\* C15: in both resolution modes the sheet carries cut guides: for every cell a
\* corner tick of length 10 * scale at the cell's top-left corner, so the downloaded
\* sheet contains the same set of cut guides as the preview.
C15_GuidesInBothModes ==
  /\ (canvas # Null /\ Len(canvas.painted) = 1) =>
       canvasGuides = GuidesFor(canvasCells, Num(1, 2))
  /\ download # Null => downloadedSheet.guides = GuidesFor(downloadedSheet.cells, Int2Num(1))

----------------------------------------------------------------------------
(* Claims about useBackgroundRemoval, checked under SpecBackground *)

\* Every segment of the model's answer has a mask, and every value of it is v.
AllMasksAre(v) ==
  /\ bgArgs.result # <<>>
  /\ \A i \in 1..Len(bgArgs.result) :
       /\ bgArgs.result[i].mask # Null
       /\ \A j \in 1..Len(bgArgs.result[i].mask.data) : bgArgs.result[i].mask.data[j] = v

\* The model's answer is one person segment with a mask of the image's size.
SolePersonMask ==
  /\ Len(bgArgs.result) = 1
  /\ bgArgs.result[1].label = "person"
  /\ bgArgs.result[1].mask # Null
  /\ bgArgs.result[1].mask.width = bgArgs.image.naturalWidth
  /\ bgArgs.result[1].mask.height = bgArgs.image.naturalHeight

\* A removeBackground call has returned an output image.
Composited ==
  /\ bgRet # NoResult
  /\ bgRet.step = "composite"
  /\ bgRet.outcome.ok

\* C16: removeBackground composites per pixel by the mask: with a fully opaque mask
\* (every value 1) each output pixel equals the source pixel, with a fully
\* transparent mask (every value 0) each output pixel equals the background color,
\* and the output has the source image's dimensions.
C16_CompositeByMask ==
  Composited =>
    LET out == bgRet.outcome.output
        img == bgArgs.image
    IN  /\ out.width = img.naturalWidth
        /\ out.height = img.naturalHeight
        /\ Len(out.pixels) = img.naturalWidth * img.naturalHeight
        /\ AllMasksAre(1) => out.pixels = img.pixels
        /\ AllMasksAre(0) =>
             \A i \in 1..Len(out.pixels) : out.pixels[i] = bgArgs.backgroundColor
        /\ SolePersonMask =>
             \A i \in 1..Len(out.pixels) :
               out.pixels[i] = IF bgArgs.result[1].mask.data[i] = 1 THEN img.pixels[i]
                               ELSE bgArgs.backgroundColor

\* An image of two different pixels was composited with a fully opaque mask and
\* came out unchanged.
C16_Witness ==
  /\ Composited
  /\ AllMasksAre(1)
  /\ bgArgs.image.pixels[1] # bgArgs.image.pixels[2]
  /\ bgRet.outcome.output.pixels = bgArgs.image.pixels
  /\ bgRet.outcome.output.pixels[1] # bgArgs.backgroundColor

\* No segment of the model's answer is labelled person or face.
NoSubjectSegment ==
  \A i \in 1..Len(bgArgs.result) : bgArgs.result[i].label \notin {"person", "face"}

\* C17: when the segmentation result contains no segment labelled person or face,
\* removeBackground fails (NoSubjectDetected) and returns no output bitmap; it never
\* falls back to compositing with some other segment's mask.
C17_NoSubjectFails ==
  (bgRet # NoResult /\ bgRet.step = "composite" /\ NoSubjectSegment) => ~bgRet.outcome.ok

\* C18: the segmentation model is initialized exactly once per process: for any
\* interleaving of removeBackground calls, pipeline() is invoked at most once and
\* all callers await the same in-flight initialization.
C18_SegmenterLoadedOnce ==
  /\ Cardinality(pipelineCallsFor("image-segmentation")) <= 1
  /\ \A i, j \in 1..Len(bgCalls) : bgCalls[i].model = bgCalls[j].model

----------------------------------------------------------------------------
(* Claims about the models' loading and use, checked under SpecRemount *)

\* The detectFace calls waiting for the detector to load.
CallsAtInit == {i \in 1..Len(calls) : calls[i].at = "init"}

\* C19: the detection model is initialized exactly once per process: for any
\* interleaving of detectFace/getDetector calls, including calls that start while an
\* earlier initialization is still in flight, pipeline() is invoked at most once and
\* every caller awaits the same memoized promise.
C19_DetectorLoadedOnce ==
  /\ Cardinality(pipelineCallsFor("object-detection")) <= 1
  /\ Len(pipelineCalls) = Cardinality(pipelineCallsFor("object-detection"))
  /\ (detectorPromise = "null") <=> (pipelineCalls = <<>>)
  /\ CallsAtInit # {} => detectorPromise = "pending"

\* Two editors' detectFace calls wait for the one loading the first of them started.
C19_Witness ==
  /\ Cardinality(CallsAtInit) = 2
  /\ calls[1].mount # calls[2].mount
  /\ Len(pipelineCalls) = 1
  /\ detectorPromise = "pending"

\* C20: at most one inference is in flight per loaded model instance: in every
\* reachable state, for any sequence of user-triggered detectFace calls (Detect Face,
\* Auto-Center), the detector has at most one pending model invocation.
C20_OneInferenceInFlight ==
  Cardinality({i \in 1..Len(calls) : calls[i].at = "inference"}) <= 1

\* C21: when detectFace derives the face from the most confident person detection
\* (label person, score above 0.7), the face box is the person box with 20% of its
\* width trimmed from each side and the top 40% of its height kept; for a
\* well-formed person box it is well-formed and contained in the person box.
ConfidentPersons ==
  {i \in 1..Len(detections) :
     detections[i].label = "person" /\ detections[i].score > PersonScore}

MostConfidentPersons ==
  {i \in ConfidentPersons : \A j \in ConfidentPersons : detections[j].score <= detections[i].score}

WellFormed(b) == LT(b.xmin, b.xmax) /\ LT(b.ymin, b.ymax)

TrimmedFrom(f, p) ==
  LET w == Minus(p.xmax, p.xmin)
      h == Minus(p.ymax, p.ymin)
  IN  /\ f.xmin = Plus(p.xmin, Times(Num(2, 10), w))
      /\ f.ymin = p.ymin
      /\ f.xmax = Minus(p.xmax, Times(Num(2, 10), w))
      /\ f.ymax = Plus(p.ymin, Times(Num(4, 10), h))

ContainedIn(f, p) ==
  LE(p.xmin, f.xmin) /\ LE(f.xmax, p.xmax) /\ LE(p.ymin, f.ymin) /\ LE(f.ymax, p.ymax)

C21_FaceBoxTrimmed ==
  (ConfidentPersons # {} /\ hook.detectedFace # Null) =>
    \E i \in MostConfidentPersons :
      LET p == detections[i].box
          f == hook.detectedFace.box
      IN  /\ TrimmedFrom(f, p)
          /\ WellFormed(p) => (WellFormed(f) /\ ContainedIn(f, p))

\* A one pixel wide and one pixel high person at (33, 17) has been detected.
C21_Witness ==
  /\ ConfidentPersons # {}
  /\ hook.detectedFace # Null
  /\ \E i \in MostConfidentPersons : detections[i].box = Box(33, 17, 34, 18)

\* C22: a failure of the detector's initialization is terminal only for the
\* detectFace call in which it occurs: a later Detect Face click of the user, made
\* when no initialization has succeeded, starts a new initialization.
C22_RetryIsFresh ==
  (detectorPromise = "rejected" /\ image # Null /\ ButtonsEnabled) =>
    ENABLED (HandleAutoDetect /\ detectorPromise' = "pending")

\* C23: the re-validation scheduled by handleAutoCenter evaluates the photo as it
\* has just been placed: for a face of positive height the report it stores says
\* that the photo meets the requirements of the selected standard.
C23_RevalidationSeesPlacement ==
  (/\ lastCall.op = "validateFace"
   /\ lastCall.caller = "revalidate"
   /\ LT(Int2Num(0), callFaceHeight)
   /\ hook.validation = lastCall.ret) =>
    hook.validation.isValid

\* Two cells share no pixel.
CellsDisjoint(c, e) ==
  \/ LE(Plus(c.x, c.width), e.x)
  \/ LE(Plus(e.x, e.width), c.x)
  \/ LE(Plus(c.y, c.height), e.y)
  \/ LE(Plus(e.y, e.height), c.y)

\* C24: for every catalogue standard and sheet, with margin 5 mm and gap 2 mm at the
\* sheet's DPI, every cell of the exported sheet lies inside the printable area: no
\* two cells overlap, and each cell's right edge is at most sheetWidthPx - marginPx
\* and its bottom edge at most sheetHeightPx - marginPx.
C24_CellsInPrintableArea ==
  download # Null =>
    LET marginPx == mmToPixels(Int2Num(5), Int2Num(download.sheet.dpi))
    IN  /\ \A c \in downloadedSheet.cells :
             /\ LE(marginPx, c.x)
             /\ LE(marginPx, c.y)
             /\ LE(Plus(c.x, c.width), Minus(downloadedSheet.width, marginPx))
             /\ LE(Plus(c.y, c.height), Minus(downloadedSheet.height, marginPx))
        /\ \A c, e \in downloadedSheet.cells : c # e => CellsDisjoint(c, e)

----------------------------------------------------------------------------
(* Claims about the loading flags, checked under SpecBackground *)

\* C29: isLoading of useBackgroundRemoval is true in every state in which a
\* removeBackground call is in flight and false once all calls have finished, for
\* any overlap of calls; likewise isLoading of useFaceDetection for the detectFace
\* calls of the hook's instance.
C29_LoadingWhileInFlight ==
  /\ bgHook.isLoading <=> (bgCalls # <<>>)
  /\ hook.isLoading <=> HasLiveCall

----------------------------------------------------------------------------
(* Claims about the editor under standard changes, checked under SpecStandard *)

\* C26: whenever the editor displays a validation report, the report is the one
\* validateFace gives for the detected face against the currently selected
\* standard, never the report of a previously selected standard.
C26_ValidationOfSelectedStandard ==
  (hook.validation # Null /\ hook.detectedFace # Null /\ image # Null) =>
    hook.validation = validateFaceResult(hook.detectedFace, image.width, image.height, standard)

----------------------------------------------------------------------------
(* Claims about the preview under changes, checked under SpecPreviewChange *)

\* C28: when the sheet or the standard changes while an earlier drawSheet call
\* waits for its image, the preview ends up showing exactly the cells of the latest
\* layout: once every drawSheet call has returned, the cells on the canvas are those
\* of the selected standard on the selected sheet, and no superseded call has drawn
\* onto the canvas after the latest call cleared it.
C28_PreviewShowsLatest ==
  draws = <<>> => canvasCells = drawSheetCells(standard, selectedSheet, FALSE)

----------------------------------------------------------------------------
(* Claims about the zoom controls, checked under SpecZoom *)

\* C30: the zoom controls are monotonic and bounded: from any reachable scale
\* (initial fit scale, Reset, Auto-Center, slider) the zoom-out button never
\* increases the scale, the zoom-in button never decreases it, and the scale stays
\* within the slider's range [0.5, 3].
C30_ZoomMonotonicBounded ==
  /\ [](LE(Num(1, 2), scale) /\ LE(scale, Int2Num(3)))
  /\ [][ZoomOut => LE(scale', scale)]_vars
  /\ [][ZoomIn => LE(scale, scale')]_vars

----------------------------------------------------------------------------
(* Claims about the wizard, checked under SpecWizard *)

\* C25: after any sequence and interleaving of handleImageSelect (fired by a file
\* reader's onloadend, possibly with a null result), handleCropComplete, handleBack
\* and handleStartOver, the step and the image data are consistent: in the edit
\* step there is an original image, in the export step an original and a cropped
\* image, and outside the export step there is no cropped image.
C25_StepMatchesImages ==
  /\ step = "edit" => originalImage # Null
  /\ step = "export" => (croppedImage # Null /\ originalImage # Null)
  /\ step # "export" => croppedImage = Null

\* C27: in the export step the photo tiled onto the sheet was cropped for the
\* selected standard: the canvas it was taken from has the aspect ratio
\* width/height of the standard that sizes the cells.
C27_CropMatchesStandard ==
  (step = "export" /\ croppedImage # Null) =>
    Over(croppedImage.canvasWidth, croppedImage.canvasHeight)
      = Over(Int2Num(standard.width), Int2Num(standard.height))

====
